---- MODULE Spec2Model ----
(***************************************************************************)
(* Papercraft Maestro: the image operations of Image_Processing.py, the    *)
(* stylize pipeline built from them, the four scene renders and the        *)
(* generation flow of the Streamlit apps.                                  *)
(*                                                                         *)
(* An image is a record [mode, size, px]: mode is "RGB" or "RGBA", size is *)
(* <<width, height>> and px is the row-major sequence of its pixels, each  *)
(* a tuple of 3 (RGB) or 4 (RGBA) channel values in 0..255.                *)
(*                                                                         *)
(* An opacity is written in hundredths (75 is 0.75).  For the opacities    *)
(* enumerated here the float64 product a * opacity of the source and the   *)
(* exact product a * n / 100 have the same integer part for every a in     *)
(* 0..255, so the truncating cast is computed on integers.  A contrast     *)
(* factor is an integer (the call sites pass 3.0 and 10.0).                *)
(***************************************************************************)
EXTENDS Integers, Sequences, FiniteSets, TLC

VARIABLES
    pc,         \* position of the modelled call or script run
    op,         \* SpecOps: the operation that was called
    input,      \* the image passed in
    image,      \* the current image (the local `image` / the returned image)
    factor,     \* contrast factor of the call
    threshold,  \* white threshold of the call
    color,      \* target colour of the call
    opacity,    \* opacity of the call, in hundredths
    call,       \* the function called with its arguments (render_on_*, process_image_for_papercut)
    result,     \* its return value: Unset, NoneValue, a path or an image
    raised,     \* an exception left the function
    exc,        \* the exception raised inside it, "none" if none
    papercut,   \* render_on_*: size of the local papercut
    scene,      \* render_on_*: size of the local scene
    processed,  \* render_on_*: size of processed_papercut
    anchor,     \* render_on_*: the paste position (x, y)
    papercut_px, \* render_on_*: pixel content of papercut
    scene_px,   \* render_on_*: pixel content of scene
    processed_px, \* render_on_*: pixel content of processed_papercut
    final_image, \* render_on_*: the local final_image
    dirs,       \* the directories that exist
    files,      \* the image files written, by path
    now,        \* int(time.time())
    output_path, \* process_image_for_papercut / main: the local output_path
    saved,      \* the paths earlier runs returned, with the image each saved
    app,        \* which app runs: "main" (main.py) or "streamlit" (StreamlitApp/app.py)
    prompt,     \* content of the text area
    clicks,     \* Generate clicks so far; the current attempt's number
    backgrounds, \* the scenes whose background file exists
    render_fails, \* the scenes whose render fails in the current attempt
    generated_image, \* st.session_state.generated_image
    processed_image, \* st.session_state.processed_image
    scene_previews,  \* st.session_state.scene_previews
    img_local,  \* the local img of the current attempt
    status,     \* what status_container shows
    failed_at,  \* the step whose exception reached the app's handler
    shown,      \* what the results placeholder shows
    heap,       \* SpecObjects: the image and array objects, by identity
    locals,     \* SpecObjects: the object each local name is bound to
    generation_history \* GradioInterface.generation_history

imgvars == <<op, input, image, factor, threshold, color, opacity>>

callvars == <<call, result, raised, exc>>

rendervars == <<papercut, scene, processed, anchor,
                papercut_px, scene_px, processed_px, final_image>>

procvars == <<dirs, files, now, output_path, saved>>

sessionvars == <<generated_image, processed_image, scene_previews>>

appvars == <<app, prompt, clicks, backgrounds, render_fails, sessionvars,
             img_local, status, failed_at, shown>>

objvars == <<heap, locals>>

uivars == <<generation_history>>

vars == <<pc, imgvars, callvars, rendervars, procvars, appvars, objvars, uivars>>

\* what the image operations leave alone
notimg == <<callvars, rendervars, procvars, appvars, objvars, uivars>>

\* what the scene renders leave alone
notrender == <<imgvars, procvars, appvars, objvars, uivars>>

\* what process_image_for_papercut and main leave alone
notproc == <<rendervars, appvars, objvars, uivars>>

\* what the apps leave alone
notapp == <<imgvars, callvars, rendervars, procvars, objvars, uivars>>

----------------------------------------------------------------------------
(* Pixel arithmetic *)

Min(a, b) == IF a < b THEN a ELSE b

Max(a, b) == IF a < b THEN b ELSE a

\* a mutant of Clip8: the value wraps around like an unchecked 8-bit store
Wrap8(v) == v % 256

\* clip to the range of an 8-bit channel
Clip8(v) == Max(0, Min(255, v))

R(p) == p[1]

G(p) == p[2]

B(p) == p[3]

A(p) == p[4]

HasAlpha(img) == img.mode = "RGBA"

\* Pillow's RGB -> L: (R*19595 + G*38470 + B*7471 + 0x8000) >> 16
Luma(p) == (R(p) * 19595 + G(p) * 38470 + B(p) * 7471 + 32768) \div 65536

\* image.convert('RGBA'): an image without alpha gets alpha 255 everywhere
ConvertRGBA(img) ==
    IF img.mode = "RGBA" THEN img
    ELSE [mode |-> "RGBA", size |-> img.size,
          px |-> [i \in DOMAIN img.px |-> <<R(img.px[i]), G(img.px[i]), B(img.px[i]), 255>>]]

\* a mutant of BlendChannel: a factor below 0 is taken as 0
BlendChannelFromZero(in1, in2, f) ==
    IF f <= 0 THEN in1
    ELSE IF f = 1 THEN in2
    ELSE Clip8(in1 + f * (in2 - in1))

\* ImagingBlend(in1, in2, alpha) on one channel, alpha an integer factor:
\* outside [0, 1] the blend extrapolates and clips
BlendChannel(in1, in2, f) ==
    IF f = 0 THEN in1
    ELSE IF f = 1 THEN in2
    ELSE Clip8(in1 + f * (in2 - in1))

RECURSIVE SumLuma(_, _)
SumLuma(px, n) == IF n = 0 THEN 0 ELSE Luma(px[n]) + SumLuma(px, n - 1)

\* int(ImageStat.Stat(image.convert("L")).mean[0] + 0.5)
MeanLuma(img) ==
    LET n == Len(img.px) IN (2 * SumLuma(img.px, n) + n) \div (2 * n)

----------------------------------------------------------------------------
(* The four stages *)

\* a mutant of desaturate_image: the intermediate image is L even when the
\* image has alpha, so the alpha comes back as 255
desaturate_image_through_L(img) ==
    [img EXCEPT !.px = [i \in DOMAIN img.px |->
        LET l == Luma(img.px[i]) IN
        IF HasAlpha(img) THEN <<l, l, l, 255>> ELSE <<l, l, l>>]]

\* ImageEnhance.Color(image).enhance(0.0): the image converted to L (LA when
\* it has alpha) and back to its own mode
desaturate_image(img) ==
    [img EXCEPT !.px = [i \in DOMAIN img.px |->
        LET l == Luma(img.px[i]) IN
        IF HasAlpha(img) THEN <<l, l, l, A(img.px[i])>> ELSE <<l, l, l>>]]

\* ImageEnhance.Contrast(image).enhance(factor): blend from the uniform
\* mean-gray image (carrying the image's own alpha) towards the image
increase_contrast(img, f) ==
    LET mean == MeanLuma(img) IN
    [img EXCEPT !.px = [i \in DOMAIN img.px |->
        LET p == img.px[i] IN
        IF HasAlpha(img)
        THEN <<BlendChannel(mean, R(p), f), BlendChannel(mean, G(p), f),
               BlendChannel(mean, B(p), f), BlendChannel(A(p), A(p), f)>>
        ELSE <<BlendChannel(mean, R(p), f), BlendChannel(mean, G(p), f),
               BlendChannel(mean, B(p), f)>>]]

\* a mutant of WhiteMask: the comparison is not strict
WhiteMaskNonStrict(p, t) == R(p) >= t /\ G(p) >= t /\ B(p) >= t

\* white_mask = (r > threshold) & (g > threshold) & (b > threshold)
WhiteMask(p, t) == R(p) > t /\ G(p) > t /\ B(p) > t

remove_white_background(img, t) ==
    LET rgba == IF img.mode # "RGBA" THEN ConvertRGBA(img) ELSE img IN
    [rgba EXCEPT !.px = [i \in DOMAIN rgba.px |->
        IF WhiteMask(rgba.px[i], t)
        THEN [rgba.px[i] EXCEPT ![4] = 0]
        ELSE rgba.px[i]]]

\* a mutant of ScaleAlpha: the opacity is taken as a byte and the product
\* shifted down by 8 bits
ScaleAlphaShift(a, o) == (a * ((o * 255) \div 100)) \div 256

\* a mutant of ScaleAlpha: round to nearest instead of truncating
ScaleAlphaRound(a, o) == (a * o + 50) \div 100

\* (a * opacity).astype(np.uint8), opacity in hundredths within [0, 1]
ScaleAlpha(a, o) == (a * o) \div 100

\* a mutant of NonTransparent: every pixel counts as foreground
NonTransparentAll(a) == a >= 0

\* non_transparent = a > 0
NonTransparent(a) == a > 0

\* a mutant of convert_to_red: background pixels keep their R, G, B
convert_to_red_keep_rgb(img, c, o) ==
    LET rgba == IF img.mode # "RGBA" THEN ConvertRGBA(img) ELSE img IN
    [rgba EXCEPT !.px = [i \in DOMAIN rgba.px |->
        LET a == A(rgba.px[i]) IN
        IF NonTransparent(a)
        THEN <<c[1], c[2], c[3], ScaleAlpha(a, o)>>
        ELSE [rgba.px[i] EXCEPT ![4] = 0]]]

convert_to_red(img, c, o) ==
    LET rgba == IF img.mode # "RGBA" THEN ConvertRGBA(img) ELSE img IN
    [rgba EXCEPT !.px = [i \in DOMAIN rgba.px |->
        LET a == A(rgba.px[i]) IN
        IF NonTransparent(a)
        THEN <<c[1], c[2], c[3], ScaleAlpha(a, o)>>
        ELSE <<0, 0, 0, 0>>]]

----------------------------------------------------------------------------
(* apply_color_effect: the 'Color' layer blend through HSV *)

\* image.convert('RGB'): the alpha channel is dropped
ConvertRGB(img) ==
    IF img.mode = "RGB" THEN img
    ELSE [mode |-> "RGB", size |-> img.size,
          px |-> [i \in DOMAIN img.px |-> <<R(img.px[i]), G(img.px[i]), B(img.px[i])>>]]

\* Pillow's RGB -> HSV on one pixel: V is the largest channel, S is
\* 255 * (max - min) / max and H is 255 * (h mod 6) / 6, both truncated,
\* with h the hue sextant position; H = S = 0 for a gray
rgb2hsv(p) ==
    LET maxc == Max(R(p), Max(G(p), B(p)))
        minc == Min(R(p), Min(G(p), B(p)))
        cr == maxc - minc
        n == IF R(p) = maxc THEN G(p) - B(p)
             ELSE IF G(p) = maxc THEN 2 * cr + B(p) - R(p)
             ELSE 4 * cr + R(p) - G(p)
    IN  IF minc = maxc THEN <<0, 0, maxc>>
        ELSE <<(255 * (n % (6 * cr))) \div (6 * cr), (255 * cr) \div maxc, maxc>>

\* C's round() of num / den for num >= 0
RoundDiv(num, den) == (2 * num + den) \div (2 * den)

\* Pillow's HSV -> RGB on one pixel
hsv2rgb(p) ==
    LET h == p[1]
        s == p[2]
        v == p[3]
        i == (6 * h) \div 255
        f == (6 * h) % 255
        pp == Clip8(RoundDiv(v * (255 - s), 255))
        q == Clip8(RoundDiv(v * (65025 - s * f), 65025))
        t == Clip8(RoundDiv(v * (65025 - s * (255 - f)), 65025))
    IN  IF s = 0 THEN <<v, v, v>>
        ELSE CASE i % 6 = 0 -> <<v, t, pp>>
               [] i % 6 = 1 -> <<q, v, pp>>
               [] i % 6 = 2 -> <<pp, v, t>>
               [] i % 6 = 3 -> <<pp, q, v>>
               [] i % 6 = 4 -> <<t, pp, v>>
               [] i % 6 = 5 -> <<v, pp, q>>

\* a mutant of new_hsv_img: the value channel is the colour layer's too
new_hsv_img_of_color(base_img, c) ==
    LET base == ConvertRGB(base_img) IN
    [mode |-> "HSV", size |-> base.size,
     px |-> [i \in DOMAIN base.px |-> rgb2hsv(c)]]

\* new_hsv_np = np.dstack((h_channel, s_channel, v_channel)): hue and
\* saturation of the solid colour layer, value of the base image
new_hsv_img(base_img, c) ==
    LET base == ConvertRGB(base_img) IN
    [mode |-> "HSV", size |-> base.size,
     px |-> [i \in DOMAIN base.px |->
                <<rgb2hsv(c)[1], rgb2hsv(c)[2], rgb2hsv(base.px[i])[3]>>]]

\* new_hsv_img.convert('RGB')
ConvertHSVToRGB(img) ==
    [mode |-> "RGB", size |-> img.size,
     px |-> [i \in DOMAIN img.px |-> hsv2rgb(img.px[i])]]

apply_color_effect(base_img, c) == ConvertHSVToRGB(new_hsv_img(base_img, c))

----------------------------------------------------------------------------
(* Inputs *)

Red == <<255, 0, 0>>

SceneRed == <<152, 0, 21>>

Colors == {Red, SceneRed, <<0, 0, 0>>}

\* target colours of the colour blend: the reds, a gray, and colours whose
\* largest channel is green and blue
EffectColors ==
    {Red, SceneRed, <<223, 48, 51>>, <<128, 128, 128>>, <<10, 200, 30>>, <<20, 40, 250>>}

\* 1.0 (default), the scenes' 0.75, 0.85 and 0.9, and 0.5, 0.0
Opacities == {0, 50, 75, 85, 90, 100}

\* 240 is the default, 230 and 200 are passed by the callers
Thresholds == {0, 200, 230, 240, 255}

\* 2 is the default, 3 and 10 are passed by the callers; 0 and the negative
\* factors are not rejected
Factors == {-2, -1, 0, 2, 3, 10}

\* channel triples around the thresholds, and the extremes
OpRGB ==
    {<<r, g, b>> : r \in {230, 231}, g \in {230, 231}, b \in {230, 231}}
    \cup {<<0, 0, 0>>, <<1, 1, 1>>, <<255, 255, 255>>, <<255, 0, 0>>, <<240, 241, 255>>}

OpAlphas == {0, 1, 127, 255}

OpPixels(mode) ==
    IF mode = "RGB" THEN OpRGB
    ELSE {<<p[1], p[2], p[3], a>> : p \in OpRGB, a \in OpAlphas}

\* what a second pixel of an image is drawn from
OpNeighbours(mode) ==
    IF mode = "RGB" THEN {<<0, 0, 0>>, <<255, 255, 255>>, <<231, 231, 231>>}
    ELSE {<<0, 0, 0, 255>>, <<255, 255, 255, 255>>, <<231, 231, 231, 127>>, <<255, 0, 0, 0>>}

OpInputs ==
    UNION {
        {[mode |-> m, size |-> <<1, 1>>, px |-> <<p>>] : p \in OpPixels(m)}
        \cup {[mode |-> m, size |-> <<2, 1>>, px |-> <<p, q>>] :
                p \in OpPixels(m), q \in OpNeighbours(m)}
        \cup {[mode |-> m, size |-> <<1, 2>>, px |-> <<q, p>>] :
                p \in OpPixels(m), q \in OpNeighbours(m)}
      : m \in {"RGB", "RGBA"}}

----------------------------------------------------------------------------
(* Values of the state a specification does not use *)

ImgIdle ==
    /\ op = "none"
    /\ input = "none"
    /\ image = "none"
    /\ factor = 2
    /\ threshold = 240
    /\ color = <<255, 0, 0>>
    /\ opacity = 100

\* no value returned yet
Unset == [kind |-> "unset"]

\* Python's None
NoneValue == [kind |-> "None"]

\* no pixels read yet
NoContent == [kind |-> "none"]

CallIdle ==
    /\ call = [fn |-> "none"]
    /\ result = Unset
    /\ raised = FALSE
    /\ exc = "none"

RenderIdle ==
    /\ papercut = <<0, 0>>
    /\ scene = <<0, 0>>
    /\ processed = <<0, 0>>
    /\ anchor = <<0, 0>>
    /\ papercut_px = NoContent
    /\ scene_px = NoContent
    /\ processed_px = NoContent
    /\ final_image = Unset

\* no local is bound (0 is no object)
NoLocals ==
    [image |-> 0, img_array |-> 0, papercut |-> 0, scene |-> 0,
     processed_papercut |-> 0, scene_rgba |-> 0]

ObjIdle ==
    /\ heap = <<>>
    /\ locals = NoLocals

\* self.generation_history = []
UiIdle == generation_history = <<>>

\* no path
NoPath == <<"", 0>>

ProcIdle ==
    /\ dirs = {}
    /\ files = <<>>
    /\ now = 0
    /\ output_path = NoPath
    /\ saved = <<>>

\* st.session_state.scene_previews = {}
EmptyPreviews == [s \in {} |-> NoneValue]

\* the results placeholder is empty
NothingShown == [papercut |-> NoneValue, previews |-> EmptyPreviews, warning |-> FALSE]

AppIdle ==
    /\ app = "none"
    /\ prompt = ""
    /\ clicks = 0
    /\ backgrounds = {}
    /\ render_fails = {}
    /\ generated_image = NoneValue
    /\ processed_image = NoneValue
    /\ scene_previews = EmptyPreviews
    /\ img_local = NoneValue
    /\ status = "none"
    /\ failed_at = "none"
    /\ shown = NothingShown

----------------------------------------------------------------------------
(* SpecOps: one call of one of the four operations on any input *)

InitOps ==
    /\ pc = "call"
    /\ op = "none"
    /\ input \in OpInputs
    /\ image = input
    /\ factor = 2
    /\ threshold = 240
    /\ color = Red
    /\ opacity = 100
    /\ CallIdle
    /\ RenderIdle
    /\ ObjIdle
    /\ UiIdle
    /\ ProcIdle
    /\ AppIdle

CallDesaturate ==
    /\ pc = "call"
    /\ op' = "desaturate_image"
    /\ image' = desaturate_image(input)
    /\ pc' = "returned"
    /\ UNCHANGED <<input, factor, threshold, color, opacity>>
    /\ UNCHANGED notimg

CallIncreaseContrast ==
    /\ pc = "call"
    /\ \E f \in Factors :
        /\ factor' = f
        /\ image' = increase_contrast(input, f)
    /\ op' = "increase_contrast"
    /\ pc' = "returned"
    /\ UNCHANGED <<input, threshold, color, opacity>>
    /\ UNCHANGED notimg

CallRemoveWhiteBackground ==
    /\ pc = "call"
    /\ \E t \in Thresholds :
        /\ threshold' = t
        /\ image' = remove_white_background(input, t)
    /\ op' = "remove_white_background"
    /\ pc' = "returned"
    /\ UNCHANGED <<input, factor, color, opacity>>
    /\ UNCHANGED notimg

CallConvertToRed ==
    /\ pc = "call"
    /\ \E c \in Colors, o \in Opacities :
        /\ color' = c
        /\ opacity' = o
        /\ image' = convert_to_red(input, c, o)
    /\ op' = "convert_to_red"
    /\ pc' = "returned"
    /\ UNCHANGED <<input, factor, threshold>>
    /\ UNCHANGED notimg

\* apply_color_effect(base_img, color) up to new_hsv_img
CallApplyColorEffect ==
    /\ pc = "call"
    /\ \E c \in EffectColors :
        /\ color' = c
        /\ image' = new_hsv_img(input, c)
    /\ op' = "apply_color_effect"
    /\ pc' = "new_hsv_img"
    /\ UNCHANGED <<input, factor, threshold, opacity>>
    /\ UNCHANGED notimg

\* return new_hsv_img.convert('RGB')
ReturnColorEffect ==
    /\ pc = "new_hsv_img"
    /\ image' = ConvertHSVToRGB(image)
    /\ pc' = "returned"
    /\ UNCHANGED <<op, input, factor, threshold, color, opacity>>
    /\ UNCHANGED notimg

\* convert_to_red(image, color, opacity) called again on the image a call of
\* convert_to_red returned, with the same colour and opacity
CallConvertToRedAgain ==
    /\ pc = "returned"
    /\ op = "convert_to_red"
    /\ image' = convert_to_red(image, color, opacity)
    /\ pc' = "returned_again"
    /\ UNCHANGED <<op, input, factor, threshold, color, opacity>>
    /\ UNCHANGED notimg

NextOps ==
    \/ CallDesaturate
    \/ CallIncreaseContrast
    \/ CallRemoveWhiteBackground
    \/ CallConvertToRed
    \/ CallConvertToRedAgain
    \/ CallApplyColorEffect
    \/ ReturnColorEffect

SpecOps == InitOps /\ [][NextOps]_vars

----------------------------------------------------------------------------
(* Claims about single calls (SpecOps) *)

Returned(name) == pc = "returned" /\ op = name

\* alpha of pixel i of the input once coerced to RGBA
InAlpha(i) == IF input.mode = "RGBA" THEN input.px[i][4] ELSE 255

SameShape == image.size = input.size /\ Len(image.px) = Len(input.px)

\* C1: remove_white_background returns the RGBA-coerced input with alpha 0
\* on exactly the pixels with R > t, G > t and B > t; every other pixel
\* keeps its alpha (255 without an alpha channel), no R, G or B changes, a
\* pixel with all channels equal to t is not keyed, and t = 255 keys nothing.
C1_KeyExactlyAboveThreshold ==
    Returned("remove_white_background") =>
        /\ image.mode = "RGBA"
        /\ SameShape
        /\ \A i \in DOMAIN input.px :
            LET p == input.px[i]
                q == image.px[i]
                keyed == p[1] > threshold /\ p[2] > threshold /\ p[3] > threshold
            IN  /\ Len(q) = 4
                /\ <<q[1], q[2], q[3]>> = <<p[1], p[2], p[3]>>
                /\ keyed => q[4] = 0
                /\ ~keyed => q[4] = InAlpha(i)
                /\ (p[1] = threshold /\ p[2] = threshold /\ p[3] = threshold)
                        => q[4] = InAlpha(i)
                /\ threshold = 255 => q[4] = InAlpha(i)

\* a call that keys one visible pixel and leaves a visible pixel with all
\* channels equal to the threshold alone
C1_Witness ==
    /\ Returned("remove_white_background")
    /\ \E i \in DOMAIN input.px :
        /\ InAlpha(i) > 0
        /\ input.px[i][1] > threshold /\ input.px[i][2] > threshold
        /\ input.px[i][3] > threshold
        /\ image.px[i][4] = 0
    /\ \E j \in DOMAIN input.px :
        /\ InAlpha(j) > 0
        /\ input.px[j][1] = threshold /\ input.px[j][2] = threshold
        /\ input.px[j][3] = threshold
        /\ image.px[j][4] = InAlpha(j)

\* C2: convert_to_red maps every pixel of input alpha 0 to (0,0,0,0)
\* whatever its R, G, B were, gives every pixel of input alpha > 0 the target
\* colour, and with opacity 1.0 makes such a pixel (colour, original alpha).
C2_RecolourForegroundClearBackground ==
    Returned("convert_to_red") =>
        /\ image.mode = "RGBA"
        /\ SameShape
        /\ \A i \in DOMAIN input.px :
            LET q == image.px[i] IN
            /\ InAlpha(i) = 0 => q = <<0, 0, 0, 0>>
            /\ InAlpha(i) > 0 => <<q[1], q[2], q[3]>> = color
            /\ (InAlpha(i) > 0 /\ opacity = 100)
                    => q = <<color[1], color[2], color[3], InAlpha(i)>>

\* a call at opacity 1.0 with a non-black target colour on an image holding
\* a transparent pixel with non-zero R, G, B and a half-transparent pixel
C2_Witness ==
    /\ Returned("convert_to_red")
    /\ opacity = 100
    /\ color # <<0, 0, 0>>
    /\ \E i \in DOMAIN input.px :
        /\ InAlpha(i) = 0
        /\ input.px[i][1] > 0
        /\ image.px[i] = <<0, 0, 0, 0>>
    /\ \E j \in DOMAIN input.px :
        /\ InAlpha(j) = 127
        /\ image.px[j] = <<color[1], color[2], color[3], 127>>

\* C3: for a foreground pixel (input alpha a in 1..255) the new alpha is
\* a * opacity truncated toward zero, the integer k with
\* k <= a * opacity < k + 1; alpha 255 at opacity 0.5 becomes 127, not 128.
C3_AlphaTruncates ==
    Returned("convert_to_red") =>
        \A i \in DOMAIN input.px :
            LET a == InAlpha(i)
                k == image.px[i][4]
            IN  a > 0 =>
                /\ 100 * k <= a * opacity
                /\ a * opacity < 100 * (k + 1)
                /\ (a = 255 /\ opacity = 50) => k = 127

\* a call at opacity 0.5 on a pixel of alpha 255, which gets alpha 127
C3_Witness ==
    /\ Returned("convert_to_red")
    /\ opacity = 50
    /\ \E i \in DOMAIN input.px :
        /\ input.mode = "RGBA"
        /\ InAlpha(i) = 255
        /\ image.px[i][4] = 127

\* hue and saturation of the target colours, on Pillow's 0..255 scales
HueSaturation(c) ==
    CASE c = <<255, 0, 0>> -> <<0, 255>>
      [] c = <<152, 0, 21>> -> <<249, 255>>
      [] c = <<223, 48, 51>> -> <<254, 200>>
      [] c = <<128, 128, 128>> -> <<0, 0>>
      [] c = <<10, 200, 30>> -> <<89, 242>>
      [] c = <<20, 40, 250>> -> <<166, 234>>

\* C16: for every base image and target colour, the HSV image that
\* apply_color_effect builds before converting back to RGB has the base's
\* size, at every pixel the hue and the saturation of the solid target
\* colour, and at every pixel the value (largest of R, G, B) of the base
\* image's pixel at the same position.
C16_HueSaturationOfColourValueOfBase ==
    (pc = "new_hsv_img" /\ op = "apply_color_effect") =>
        /\ image.mode = "HSV"
        /\ image.size = input.size
        /\ DOMAIN image.px = DOMAIN input.px
        /\ \A i \in DOMAIN image.px :
            /\ image.px[i][1] = HueSaturation(color)[1]
            /\ image.px[i][2] = HueSaturation(color)[2]
            /\ image.px[i][3] = Max(R(input.px[i]), Max(G(input.px[i]), B(input.px[i])))

\* the HSV image built for (152, 0, 21) from a base of a white and a dark
\* pixel: hue 249 and saturation 255 at both, values 255 and 1
C16_Witness ==
    /\ pc = "new_hsv_img"
    /\ op = "apply_color_effect"
    /\ color = SceneRed
    /\ Len(input.px) = 2
    /\ image.px[1] = <<249, 255, 1>>
    /\ image.px[2] = <<249, 255, 255>>

\* C17: for every image, desaturate_image returns an image with R = G = B
\* at every pixel (saturation 0), of the same width, height and channel
\* count as the input and, when the input has alpha, with the input's alpha
\* at every pixel.
C17_DesaturateKeepsShapeAndAlpha ==
    Returned("desaturate_image") =>
        /\ image.size = input.size
        /\ image.mode = input.mode
        /\ DOMAIN image.px = DOMAIN input.px
        /\ \A i \in DOMAIN image.px :
            LET p == image.px[i] IN
            /\ Len(p) = Len(input.px[i])
            /\ R(p) = G(p) /\ G(p) = B(p)
            /\ rgb2hsv(<<R(p), G(p), B(p)>>)[2] = 0
            /\ HasAlpha(input) => A(p) = A(input.px[i])

\* desaturate_image has returned for an RGBA image of two pixels, one
\* coloured and half transparent: it came back gray with alpha 127
C17_Witness ==
    /\ Returned("desaturate_image")
    /\ input.mode = "RGBA"
    /\ Len(input.px) = 2
    /\ \E i \in DOMAIN input.px :
        /\ input.px[i] = <<240, 241, 255, 127>>
        /\ image.px[i] = <<242, 242, 242, 127>>

\* every pixel of img has the same R = G = B
UniformGray(img) ==
    \A i, j \in DOMAIN img.px :
        /\ R(img.px[i]) = G(img.px[i]) /\ G(img.px[i]) = B(img.px[i])
        /\ R(img.px[i]) = R(img.px[j])

\* C19 as stated: for every image and every factor <= 0, negative factors
\* as well as 0, increase_contrast returns an image flattened to a single
\* uniform gray.
C19_Original ==
    (Returned("increase_contrast") /\ factor <= 0) => UniformGray(image)

\* C19: increase_contrast accepts every factor <= 0 without validation.  At
\* factor 0 it returns the image flattened to one gray, the rounded mean of
\* the image's luminance, with the input's alpha.  At a negative factor f it
\* returns the image mirrored about that gray, each channel
\* mean + f * (v - mean) clipped to 0..255: a channel above the mean comes
\* out at or below it and one below the mean at or above it, so the result
\* is in general not flat (black and white swap places at factor -1).
C19_ZeroFlattensNegativeMirrors ==
    (Returned("increase_contrast") /\ factor <= 0) =>
        LET n == Len(input.px)
            mean == (2 * SumLuma(input.px, n) + n) \div (2 * n)
        IN  /\ image.size = input.size /\ image.mode = input.mode
            /\ factor = 0 =>
                /\ UniformGray(image)
                /\ \A i \in DOMAIN image.px : R(image.px[i]) = mean
            /\ \A i \in DOMAIN image.px : \A k \in 1..3 :
                LET v == input.px[i][k]
                    out == image.px[i][k]
                IN  /\ out = Max(0, Min(255, mean + factor * (v - mean)))
                    /\ v > mean => out <= mean
                    /\ v < mean => out >= mean
            /\ HasAlpha(input) =>
                \A i \in DOMAIN image.px : A(image.px[i]) = A(input.px[i])

\* increase_contrast at factor -1 has turned a black and a white pixel into
\* a white and a nearly black one
C19_Witness ==
    /\ Returned("increase_contrast")
    /\ factor = -1
    /\ input.px = <<<<0, 0, 0>>, <<255, 255, 255>>>>
    /\ image.px = <<<<255, 255, 255>>, <<1, 1, 1>>>>

\* C24: convert_to_red with opacity 1.0 is idempotent for a fixed colour:
\* a second call on the image the first call returned, with the same colour,
\* returns an image equal to it.
C24_RecolourTwiceIsOnce ==
    [][(/\ Returned("convert_to_red")
        /\ opacity = 100
        /\ pc' = "returned_again") => image' = image]_vars

\* the second call at opacity 1.0 has returned for an RGBA input with a
\* translucent foreground pixel and a transparent pixel of hidden colour,
\* which the first call changed
C24_Witness ==
    /\ pc = "returned_again"
    /\ op = "convert_to_red"
    /\ opacity = 100
    /\ input.mode = "RGBA"
    /\ image # input
    /\ \E i \in DOMAIN input.px : InAlpha(i) = 127 /\ image.px[i][4] = 127
    /\ \E j \in DOMAIN input.px : InAlpha(j) = 0 /\ input.px[j][1] > 0

----------------------------------------------------------------------------
(* SpecRange: remove_white_background and convert_to_red called with any   *)
(* threshold and opacity, inside or outside [0, 255] and [0, 1].  Neither  *)
(* function looks at the range of its parameter.  The comparison with a    *)
(* threshold outside 0..255 is an ordinary integer comparison.  The cast   *)
(* (a * opacity).astype(np.uint8) of a product outside 0..255 is not       *)
(* defined by C: the build either wraps the truncated value modulo 256 or  *)
(* saturates it.                                                           *)

\* thresholds below 0 and above 255
OutOfRangeThresholds == {-1, 256, 300}

\* opacities below 0.0 and above 1.0, in hundredths
OutOfRangeOpacities == {-50, 101, 150}

CastPolicies == {"wrap", "saturate"}

\* x * o / 100 truncated toward zero
TruncProduct(a, o) ==
    IF a * o >= 0 THEN (a * o) \div 100 ELSE -((-(a * o)) \div 100)

\* a mutant of CastAlpha: the opacity scales a full alpha, not the pixel's
CastAlphaOfOpaque(a, o, cast) == (255 * o) \div 100

\* (a * opacity).astype(np.uint8) for any opacity
CastAlpha(a, o, cast) ==
    LET k == TruncProduct(a, o) IN
    IF k \in 0..255 THEN k
    ELSE IF cast = "wrap" THEN k % 256
    ELSE Clip8(k)

\* convert_to_red for any opacity
convert_to_red_cast(img, c, o, cast) ==
    LET rgba == IF img.mode # "RGBA" THEN ConvertRGBA(img) ELSE img IN
    [rgba EXCEPT !.px = [i \in DOMAIN rgba.px |->
        LET a == A(rgba.px[i]) IN
        IF NonTransparent(a)
        THEN <<c[1], c[2], c[3], CastAlpha(a, o, cast)>>
        ELSE <<0, 0, 0, 0>>]]

\* remove_white_background(image, threshold) with any integer threshold
CallWithThreshold ==
    /\ pc = "call"
    /\ \E t \in Thresholds \cup OutOfRangeThresholds :
        /\ threshold' = t
        /\ image' = remove_white_background(input, t)
    /\ op' = "remove_white_background"
    /\ pc' = "returned"
    /\ UNCHANGED <<input, factor, color, opacity>>
    /\ UNCHANGED notimg

\* convert_to_red(image, color, opacity) with any opacity
CallWithOpacity ==
    /\ pc = "call"
    /\ \E o \in Opacities \cup OutOfRangeOpacities, cast \in CastPolicies :
        /\ opacity' = o
        /\ image' = convert_to_red_cast(input, Red, o, cast)
    /\ op' = "convert_to_red"
    /\ color' = Red
    /\ pc' = "returned"
    /\ UNCHANGED <<input, factor, threshold>>
    /\ UNCHANGED notimg

NextRange ==
    \/ CallWithThreshold
    \/ CallWithOpacity

SpecRange == InitOps /\ [][NextRange]_vars

\* the call was made with a threshold outside [0, 255] or an opacity
\* outside [0, 1]
OutOfRange ==
    \/ op = "remove_white_background" /\ threshold \notin 0..255
    \/ op = "convert_to_red" /\ opacity \notin 0..100

\* C20: an out-of-range numeric parameter is rejected: a call of
\* remove_white_background with a threshold outside [0, 255], or of
\* convert_to_red with an opacity outside [0, 1], ends with an error and
\* produces no image.
C20_OutOfRangeRejected ==
    (pc = "returned" /\ OutOfRange) =>
        /\ raised
        /\ image = input

\* C23: for every opacity in [0, 1] convert_to_red never raises a pixel's
\* alpha and never makes a transparent pixel visible: each alpha of the
\* result is at most the alpha of the same pixel of the input (255 without
\* an alpha channel), and is above 0 only where the input's alpha was.
C23_AlphaNeverRaised ==
    (Returned("convert_to_red") /\ opacity \in 0..100) =>
        \A i \in DOMAIN input.px :
            /\ image.px[i][4] <= InAlpha(i)
            /\ image.px[i][4] > 0 => InAlpha(i) > 0

\* a call at opacity 0.75 on an image with a pixel of alpha 127, which gets
\* alpha 95, and a transparent pixel, which stays transparent
C23_Witness ==
    /\ Returned("convert_to_red")
    /\ opacity = 75
    /\ input.mode = "RGBA"
    /\ \E i \in DOMAIN input.px :
        /\ InAlpha(i) = 127
        /\ image.px[i][4] = 95
    /\ \E j \in DOMAIN input.px :
        /\ InAlpha(j) = 0
        /\ image.px[j][4] = 0

----------------------------------------------------------------------------
(* SpecStylize: the four stages in the order of process_image_for_papercut  *)
(* and of main, desaturate -> contrast -> remove white -> recolour, with    *)
(* the (factor, threshold) pair of either caller and any colour and opacity *)

\* longest row of an already stylized input
MaxWidth == 6

\* (3.0, 230) in process_image_for_papercut and the apps, (10.0, 200) in main
ParamPairs == {<<3, 230>>, <<10, 200>>}

RedPx == <<255, 0, 0, 255>>

ClearPx == <<0, 0, 0, 0>>

\* rows of default-colour pixels at alpha 255 and cleared pixels, in every
\* proportion: what the four stages return at the default colour and opacity
StylizedInputs ==
    UNION {{[mode |-> "RGBA", size |-> <<n, 1>>, px |-> row] :
                row \in [1..n -> {RedPx, ClearPx}]} : n \in 1..MaxWidth}

StylizePixels(mode) ==
    IF mode = "RGB"
    THEN {<<255, 255, 255>>, <<0, 0, 0>>, <<128, 128, 128>>, <<255, 0, 0>>}
    ELSE {<<255, 255, 255, 255>>, <<0, 0, 0, 255>>, <<255, 255, 255, 0>>,
          <<200, 30, 30, 1>>, <<128, 128, 128, 127>>, <<10, 10, 10, 2>>}

RawInputs ==
    UNION {
        {[mode |-> m, size |-> <<1, 1>>, px |-> <<p>>] : p \in StylizePixels(m)}
        \cup {[mode |-> m, size |-> <<2, 1>>, px |-> <<p, q>>] :
                p \in StylizePixels(m), q \in StylizePixels(m)}
      : m \in {"RGB", "RGBA"}}

StylizeInputs == RawInputs \cup StylizedInputs

InitStylize ==
    /\ pc = "desaturate"
    /\ op = "stylize"
    /\ input \in StylizeInputs
    /\ image = input
    /\ \E fp \in ParamPairs :
        /\ factor = fp[1]
        /\ threshold = fp[2]
    /\ color \in Colors
    /\ opacity \in Opacities
    /\ CallIdle
    /\ RenderIdle
    /\ ObjIdle
    /\ UiIdle
    /\ ProcIdle
    /\ AppIdle

\* the file opened is truncated: Image.open succeeds and the first access to
\* the pixels raises
Truncated ==
    /\ call.fn \in {"process_image_for_papercut", "main"}
    /\ call.image_path = "truncated"

\* Step 1: image = desaturate_image(image)
Desaturate ==
    /\ pc = "desaturate"
    /\ ~Truncated
    /\ image' = desaturate_image(image)
    /\ pc' = "contrast"
    /\ UNCHANGED <<op, input, factor, threshold, color, opacity>>
    /\ UNCHANGED notimg

\* a mutant of IncreaseContrast: the stage is skipped
IncreaseContrastSkipped ==
    /\ pc = "contrast"
    /\ image' = image
    /\ pc' = "remove_white"
    /\ UNCHANGED <<op, input, factor, threshold, color, opacity>>
    /\ UNCHANGED notimg

\* Step 2: image = increase_contrast(image, factor)
IncreaseContrast ==
    /\ pc = "contrast"
    /\ image' = increase_contrast(image, factor)
    /\ pc' = "remove_white"
    /\ UNCHANGED <<op, input, factor, threshold, color, opacity>>
    /\ UNCHANGED notimg

\* Step 3: image = remove_white_background(image, threshold)
RemoveWhiteBackground ==
    /\ pc = "remove_white"
    /\ image' = remove_white_background(image, threshold)
    /\ pc' = "convert"
    /\ UNCHANGED <<op, input, factor, threshold, color, opacity>>
    /\ UNCHANGED notimg

\* Step 4: image = convert_to_red(image, color, opacity)
ConvertToRed ==
    /\ pc = "convert"
    /\ image' = convert_to_red(image, color, opacity)
    /\ pc' = "stylized"
    /\ UNCHANGED <<op, input, factor, threshold, color, opacity>>
    /\ UNCHANGED notimg

NextStylize ==
    \/ Desaturate
    \/ IncreaseContrast
    \/ RemoveWhiteBackground
    \/ ConvertToRed

SpecStylize == InitStylize /\ [][NextStylize]_vars

----------------------------------------------------------------------------
(* Claims about the composition (SpecStylize) *)

\* C4 as claimed: every pixel of the stylized image is (0,0,0,0) or carries
\* the target colour at a non-zero alpha no greater than 255 * opacity.
C4_Original ==
    pc = "stylized" =>
        \A i \in DOMAIN image.px :
            LET q == image.px[i] IN
            \/ q = <<0, 0, 0, 0>>
            \/ /\ <<q[1], q[2], q[3]>> = color
               /\ q[4] # 0
               /\ 100 * q[4] <= 255 * opacity

\* C4, amended: every pixel of the stylized image is (0,0,0,0) or carries
\* the target colour at an alpha no greater than 255 * opacity; that alpha is
\* 0 only where the pixel's own alpha times the opacity is below 1, so at
\* opacity 1.0 it is never 0.
C4_MaskedOrFlatColour ==
    pc = "stylized" =>
        /\ image.mode = "RGBA"
        /\ SameShape
        /\ \A i \in DOMAIN image.px :
            LET q == image.px[i] IN
            \/ q = <<0, 0, 0, 0>>
            \/ /\ <<q[1], q[2], q[3]>> = color
               /\ 100 * q[4] <= 255 * opacity
               /\ q[4] = 0 => InAlpha(i) * opacity < 100
               /\ opacity = 100 => q[4] # 0

\* a stylized image with a masked-out pixel beside a pixel of the target
\* colour whose alpha 127 became 63 at opacity 0.5
C4_Witness ==
    /\ pc = "stylized"
    /\ opacity = 50
    /\ color = SceneRed
    /\ \E i, j \in DOMAIN image.px :
        /\ InAlpha(i) = 255
        /\ image.px[i] = <<0, 0, 0, 0>>
        /\ InAlpha(j) = 127
        /\ image.px[j] = <<152, 0, 21, 63>>

\* the image is already all default colour at alpha 255, or alpha 0
AlreadyStylized(img) ==
    /\ img.mode = "RGBA"
    /\ \A i \in DOMAIN img.px : img.px[i] = RedPx \/ img.px[i][4] = 0

\* the same, with every alpha-0 pixel being (0,0,0,0) as the stages leave it
AlreadyStylizedCleared(img) ==
    /\ img.mode = "RGBA"
    /\ \A i \in DOMAIN img.px : img.px[i] = RedPx \/ img.px[i] = ClearPx

Foreground(img) == {i \in DOMAIN img.px : img.px[i][4] > 0}

\* C5 as claimed: on an already stylized image a second pass with the same
\* parameters gives the same image, for both parameter pairs.
C5_Original ==
    (pc = "stylized" /\ color = Red /\ opacity = 100 /\ AlreadyStylized(input))
        => image = input

\* C5, amended: on an image whose pixels are the default colour at alpha 255
\* or exactly (0,0,0,0), a second pass at the default colour and opacity
\* gives the same image with (3.0, 230) in every proportion; with (10.0, 200)
\* it does so exactly when the image has no foreground pixel or at least
\* 125/152 of its pixels are foreground, and otherwise clears every pixel.
C5_SecondPass ==
    (pc = "stylized" /\ color = Red /\ opacity = 100 /\ AlreadyStylizedCleared(input))
        => LET k == Cardinality(Foreground(input))
               n == Len(input.px)
           IN  /\ (factor = 3 /\ threshold = 230) => image = input
               /\ (factor = 10 /\ threshold = 200) =>
                    IF k = 0 \/ 152 * k >= 125 * n
                    THEN image = input
                    ELSE /\ image # input
                         /\ \A i \in DOMAIN image.px : image.px[i] = ClearPx

\* a second pass with (10.0, 200) that reproduces an image holding both
\* foreground and cleared pixels
C5_Witness ==
    /\ pc = "stylized" /\ color = Red /\ opacity = 100
    /\ factor = 10 /\ threshold = 200
    /\ AlreadyStylizedCleared(input)
    /\ Foreground(input) # {}
    /\ Foreground(input) # DOMAIN input.px
    /\ image = input

----------------------------------------------------------------------------
(* The scene renders: render_on_window, render_on_wall, render_on_door and  *)
(* render_on_package.  Here an image is its size <<width, height>>.  The    *)
(* fractions are written as integer ratios (0.6667 is 6667/10000); for the  *)
(* sizes enumerated below int() of the float product equals the integer     *)
(* quotient.                                                                *)

Scenes == {"window", "wall", "door", "package"}

\* resize((1736, 1736))
WindowSize == 1736

\* x, y = 2890, 137
WindowX == 2890

WindowY == 137

\* the exceptions that loading, resizing and saving raise; each is a
\* subclass of Exception
Exceptions ==
    {"FileNotFoundError", "PermissionError", "UnidentifiedImageError",
     "OSError", "ValueError"}

\* a mutant of Caught: the handler catches a missing file only
CaughtOnlyMissing(e) == e = "FileNotFoundError"

\* except Exception as e
Caught(e) == e \in Exceptions

\* what loading an argument raises: Image.open(path) or input.convert(mode)
LoadError(arg) ==
    CASE arg.state = "missing" -> "FileNotFoundError"
      [] arg.state = "unreadable" -> "PermissionError"
      [] arg.state = "corrupt" /\ arg.kind = "path" -> "UnidentifiedImageError"
      [] arg.state = "corrupt" /\ arg.kind = "image" -> "OSError"
      [] OTHER -> "none"

\* the triples (n, a, b) among the sizes enumerated here whose quotient
\* n * a / b is an integer that the double product n * (a / b) falls short
\* of: 15 / 11 is 1.3636363636363635 and 11 times it 14.999999999999998
RoundedShort == {<<11, 15, 11>>}

\* int(n * aspect_ratio) with aspect_ratio = a / b in double precision
ScaleByAspect(n, a, b) ==
    IF <<n, a, b>> \in RoundedShort THEN (n * a) \div b - 1 ELSE (n * a) \div b

\* target size of the resize: (target_width, target_height)
TargetSize(fn, sc, cut) ==
    CASE fn = "window" -> <<WindowSize, WindowSize>>
      [] fn = "wall" ->
            LET target_height == (sc[2] * 4948) \div 10000
            IN  <<ScaleByAspect(target_height, cut[1], cut[2]), target_height>>
      [] fn = "door" ->
            LET target_height == (sc[2] * 18) \div 100
            IN  <<ScaleByAspect(target_height, cut[1], cut[2]), target_height>>
      [] fn = "package" ->
            LET target_width == (sc[1] * 25) \div 100
            IN  <<target_width, ScaleByAspect(target_width, cut[2], cut[1])>>

CeilDiv(n, d) == -((-n) \div d)

\* rotate(33, expand=True): the corners turn about the centre and the new
\* size is ceil(max) - floor(min) on each axis; cos 33 = 0.8387, sin 33 =
\* 0.5446, which give Pillow's sizes for every size up to 8 x 40
RotatedSize(sz) ==
    LET w == sz[1]
        h == sz[2]
        ex == 8387 * w + 5446 * h
        ey == 5446 * w + 8387 * h
    IN  <<CeilDiv(10000 * w + ex, 20000) - ((10000 * w - ex) \div 20000),
          CeilDiv(10000 * h + ey, 20000) - ((10000 * h - ey) \div 20000)>>

\* (center_x, center_y) of the wall, door and package scenes
Center(fn, sc) ==
    CASE fn = "wall" -> <<(sc[1] * 6667) \div 10000, (sc[2] * 373) \div 1000>>
      [] fn = "door" -> <<(sc[1] * 6245) \div 10000, (sc[2] * 363) \div 1000>>
      [] fn = "package" -> <<(sc[1] * 48) \div 100, (sc[2] * 4833) \div 10000>>

\* a mutant of AnchorOf: the centre point is used as the top-left corner
AnchorAtCentre(fn, sc, size) ==
    IF fn = "window" THEN <<WindowX, WindowY>> ELSE Center(fn, sc)

\* (x, y): the fixed window position, or the centre point minus half the
\* size measured (target size for wall and door, rotated size for package)
AnchorOf(fn, sc, size) ==
    IF fn = "window" THEN <<WindowX, WindowY>>
    ELSE LET c == Center(fn, sc)
         IN  <<c[1] - size[1] \div 2, c[2] - size[2] \div 2>>

\* a mutant of MeasuredSize: the size before the rotation is used
MeasuredTarget(fn, target, rotated) == target

\* the size the anchor is computed from: target_width, target_height in the
\* wall and door scenes; in the package scene new_width, new_height =
\* processed_papercut.size, read after the rotation
MeasuredSize(fn, target, rotated) == IF fn = "package" THEN rotated ELSE target

----------------------------------------------------------------------------
(* Pixel content of the images of a render.  A content gives the pixel at  *)
(* every position (x, y), x counting columns and y rows from 0, so that    *)
(* images of any size are handled alike: PixelAt reads one pixel.          *)

\* Image.new(mode, size, p): every pixel is p
Solid(p) == [kind |-> "solid", p |-> p]

\* pixel p where x + y is even, pixel q where it is odd
Checker(p, q) == [kind |-> "checker", p |-> p, q |-> q]

\* an RGB photograph: the pixel depends on the position
Gradient == [kind |-> "gradient"]

\* one content can be computed for every size
Uniform(c) == c.kind = "solid"

\* Pillow's DIV255(a): a / 255 rounded to nearest
Div255(a) == LET tmp == a + 128 IN ((tmp \div 256) + tmp) \div 256

\* RGBA -> RGBa -> RGBA, the premultiplied round trip that resize and rotate
\* make around any filter other than NEAREST.  Under alpha 0 the colour
\* either survives or is zeroed (keep).
Premultiplied(p, keep) ==
    LET a == A(p) IN
    IF a = 255 THEN p
    ELSE IF a = 0 THEN (IF keep THEN p ELSE <<0, 0, 0, 0>>)
    ELSE <<Clip8((255 * Div255(R(p) * a)) \div a),
           Clip8((255 * Div255(G(p) * a)) \div a),
           Clip8((255 * Div255(B(p) * a)) \div a), a>>

\* a mutant of RecolorPixel: the cutout keeps its own colour
RecolorPixelAlphaOnly(p, c, o) ==
    IF NonTransparent(A(p)) THEN <<p[1], p[2], p[3], ScaleAlpha(A(p), o)>>
    ELSE <<0, 0, 0, 0>>

\* convert_to_red on one RGBA pixel
RecolorPixel(p, c, o) ==
    IF NonTransparent(A(p)) THEN <<c[1], c[2], c[3], ScaleAlpha(A(p), o)>>
    ELSE <<0, 0, 0, 0>>

\* rotate(33, expand=True): is the centre of pixel (x, y) of the rotated
\* canvas `to` the image of a point of the source of size `from`?  The
\* inverse map turns the offset from the canvas centre by -33 degrees and
\* adds the source centre; coordinates are in 1/20000 pixel
RotatedFrom(x, y, from, to) ==
    LET dx == 2 * x + 1 - to[1]
        dy == 2 * y + 1 - to[2]
        xin == 8387 * dx - 5446 * dy + 10000 * from[1]
        yin == 5446 * dx + 8387 * dy + 10000 * from[2]
    IN  /\ 0 <= xin /\ xin < 20000 * from[1]
        /\ 0 <= yin /\ yin < 20000 * from[2]

\* a mutant of Blend8: the pasted channel replaces the background's
Replace8(mask, out, in) == in

\* paste through a mask, one channel: BLEND8(mask, out, in)
Blend8(mask, out, in) == Div255(out * (255 - mask) + in * mask)

\* paste_mask_RGBA on one pixel: every channel of the background pixel is
\* blended with the pasted pixel by the mask pixel's alpha
PastePixel(out, in, mask) ==
    [i \in 1..4 |-> Blend8(A(mask), out[i], in[i])]

\* a mutant of CanvasSize: the canvas grows to hold the whole cutout
CanvasUnion(sc, at, sz) ==
    <<Max(sc[1], at[1] + sz[1]) - Min(0, at[1]),
      Max(sc[2], at[2] + sz[2]) - Min(0, at[2])>>

\* the size of scene_rgba after paste(im, (x, y), mask): the paste is clipped
\* to the image pasted into
CanvasSize(sc, at, sz) == sc

\* a mutant of SceneOpacity: every scene recolours at full opacity
SceneOpacityFull(fn) == 100

\* opacity of the recolour of each scene, in hundredths
SceneOpacity(fn) ==
    CASE fn = "window" -> 75
      [] fn = "wall" -> 90
      [] fn = "door" -> 90
      [] fn = "package" -> 85

\* the box of a paste: a cutout of size sz at position at
InBox(x, y, at, sz) ==
    /\ at[1] <= x /\ x < at[1] + sz[1]
    /\ at[2] <= y /\ y < at[2] + sz[2]

\* the results of the operations of a render, by what was done to what
Resampled(c, keep) == [kind |-> "resampled", of |-> c, keep |-> keep]

Recolored(c, col, o) == [kind |-> "recolor", of |-> c, color |-> col, opacity |-> o]

Rotated(c, from, to) == [kind |-> "rotate", of |-> c, from |-> from, to |-> to]

AsRGBA(c) == [kind |-> "rgba", of |-> c]

AsRGB(c) == [kind |-> "rgb", of |-> c]

Pasted(base, over, at, sz) ==
    [kind |-> "paste", base |-> base, over |-> over, at |-> at, size |-> sz]

RECURSIVE PixelAt(_, _, _)
PixelAt(c, x, y) ==
    CASE c.kind = "solid" -> c.p
      [] c.kind = "checker" -> IF (x + y) % 2 = 0 THEN c.p ELSE c.q
      [] c.kind = "gradient" ->
            <<(7 * x + 13 * y) % 256, (3 * x + y + 100) % 256, (5 * y + x + 200) % 256>>
      [] c.kind = "resampled" -> Premultiplied(PixelAt(c.of, 0, 0), c.keep)
      [] c.kind = "recolor" -> RecolorPixel(PixelAt(c.of, x, y), c.color, c.opacity)
      [] c.kind = "rotate" ->
            IF RotatedFrom(x, y, c.from, c.to)
            THEN Premultiplied(PixelAt(c.of, 0, 0), FALSE)
            ELSE <<0, 0, 0, 0>>
      [] c.kind = "rgba" ->
            LET p == PixelAt(c.of, x, y) IN <<p[1], p[2], p[3], 255>>
      [] c.kind = "rgb" ->
            LET p == PixelAt(c.of, x, y) IN <<p[1], p[2], p[3]>>
      [] c.kind = "paste" ->
            IF InBox(x, y, c.at, c.size)
            THEN LET in == PixelAt(c.over, x - c.at[1], y - c.at[2])
                 IN  PastePixel(PixelAt(c.base, x, y), in, in)
            ELSE PixelAt(c.base, x, y)

\* largest side of a cutout passed in
MaxCut == 3

SceneSides == {3, 14, 24}

\* a cutout wider than high, of the height the wall scene gives it on a
\* background 24 pixels high
WideCutout == <<15, 11>>

\* an opaque cutout as the stylize pipeline makes it
OpaqueCutout == Solid(<<255, 0, 0, 255>>)

\* what a cutout passed as an image holds: one pixel everywhere (opaque,
\* translucent, or transparent over a hidden colour), or two pixels
\* alternating
CutoutContents ==
    {OpaqueCutout, Solid(<<0, 255, 255, 128>>), Solid(<<255, 255, 255, 0>>),
     Checker(<<0, 0, 255, 255>>, <<255, 255, 255, 0>>),
     Checker(<<0, 0, 0, 1>>, <<9, 9, 9, 128>>)}

WhiteScene == Solid(<<255, 255, 255>>)

SceneContents == {WhiteScene, Gradient}

CutoutInputs ==
    {[kind |-> "path", state |-> "ok", size |-> <<w, h>>, px |-> OpaqueCutout] :
        w \in 1..MaxCut, h \in 1..MaxCut}
    \cup {[kind |-> "image", state |-> "ok", size |-> <<w, h>>, px |-> c] :
            w \in 1..MaxCut, h \in 1..MaxCut, c \in CutoutContents}
    \cup {[kind |-> "image", state |-> "ok", size |-> WideCutout, px |-> OpaqueCutout]}
    \cup {[kind |-> "path", state |-> st, size |-> <<0, 0>>, px |-> NoContent] :
            st \in {"missing", "corrupt", "unreadable"}}
    \cup {[kind |-> "image", state |-> "corrupt", size |-> <<0, 0>>, px |-> NoContent]}

SceneInputs ==
    {[kind |-> "path", state |-> "ok", size |-> <<w, h>>, px |-> WhiteScene] :
        w \in SceneSides, h \in SceneSides}
    \cup {[kind |-> "image", state |-> "ok", size |-> <<w, h>>, px |-> c] :
            w \in SceneSides, h \in SceneSides, c \in SceneContents}
    \cup {[kind |-> "path", state |-> st, size |-> <<0, 0>>, px |-> NoContent] :
            st \in {"missing", "corrupt", "unreadable"}}
    \cup {[kind |-> "image", state |-> "corrupt", size |-> <<0, 0>>, px |-> NoContent]}

\* the window scene at the sizes it was made for: Base_Window.jpg and a
\* cutout of the window's own size, and at the sizes of a test: a 100 x 100
\* cutout on a 1000 x 1000 background
WindowCalls ==
    [fn : {"window"},
     papercut_input :
        {[kind |-> "image", state |-> "ok", size |-> <<100, 100>>, px |-> c] :
            c \in {c \in CutoutContents : Uniform(c)}}
        \cup {[kind |-> "image", state |-> "ok",
                size |-> <<WindowSize, WindowSize>>, px |-> c] : c \in CutoutContents},
     scene_input :
        {[kind |-> "image", state |-> "ok", size |-> sz, px |-> c] :
            sz \in {<<1000, 1000>>, <<5760, 3840>>}, c \in SceneContents},
     output_path : {"none"}]

\* a resize to another size and the rotation are computed here for a cutout
\* of one pixel value only
Computable(c) ==
    IF c.papercut_input.state # "ok" \/ c.scene_input.state # "ok" THEN TRUE
    ELSE IF Uniform(c.papercut_input.px) THEN TRUE
    ELSE /\ c.fn # "package"
         /\ TargetSize(c.fn, c.scene_input.size, c.papercut_input.size)
                = c.papercut_input.size

InitRender ==
    /\ pc = "load_papercut"
    /\ call \in [fn : Scenes, papercut_input : CutoutInputs,
                 scene_input : SceneInputs,
                 output_path : {"none", "writable", "unwritable"}]
                \cup WindowCalls
    /\ Computable(call)
    /\ result = Unset
    /\ raised = FALSE
    /\ exc = "none"
    /\ RenderIdle
    /\ ObjIdle
    /\ UiIdle
    /\ ImgIdle
    /\ ProcIdle
    /\ AppIdle

\* an exception e is raised inside the try block
Raise(e) ==
    /\ exc' = e
    /\ IF Caught(e)
       THEN /\ result' = NoneValue
            /\ raised' = FALSE
            /\ pc' = "returned"
       ELSE /\ result' = result
            /\ raised' = TRUE
            /\ pc' = "raised"

\* papercut = Image.open(papercut_input).convert('RGBA'), or
\* papercut_input.convert('RGBA')
LoadPapercut ==
    /\ pc = "load_papercut"
    /\ IF LoadError(call.papercut_input) = "none"
       THEN /\ papercut' = call.papercut_input.size
            /\ papercut_px' = call.papercut_input.px
            /\ pc' = "load_scene"
            /\ UNCHANGED <<result, raised, exc>>
       ELSE /\ Raise(LoadError(call.papercut_input))
            /\ UNCHANGED <<papercut, papercut_px>>
    /\ UNCHANGED <<call, scene, processed, anchor, scene_px, processed_px, final_image>>
    /\ UNCHANGED notrender

\* scene = Image.open(scene_input).convert('RGB'), or scene_input.convert('RGB')
LoadScene ==
    /\ pc = "load_scene"
    /\ IF LoadError(call.scene_input) = "none"
       THEN /\ scene' = call.scene_input.size
            /\ scene_px' = call.scene_input.px
            /\ pc' = "resize"
            /\ UNCHANGED <<result, raised, exc>>
       ELSE /\ Raise(LoadError(call.scene_input))
            /\ UNCHANGED <<scene, scene_px>>
    /\ UNCHANGED <<call, papercut, processed, anchor, papercut_px, processed_px, final_image>>
    /\ UNCHANGED notrender

\* the pixels after resize(target, LANCZOS): a copy when the size does not
\* change, otherwise the resampling of the premultiplied image, which gives
\* an image of one pixel value for an image of one pixel value
ResizedContents(c, from, target) ==
    IF from = target THEN {c}
    ELSE {Resampled(c, keep) :
            keep \in IF A(PixelAt(c, 0, 0)) = 0 THEN BOOLEAN ELSE {FALSE}}

\* papercut = papercut.resize((target_width, target_height), LANCZOS);
\* Pillow raises ValueError unless both are at least 1
Resize ==
    /\ pc = "resize"
    /\ LET target == TargetSize(call.fn, scene, papercut) IN
       IF target[1] >= 1 /\ target[2] >= 1
       THEN /\ papercut' = target
            /\ papercut_px' \in ResizedContents(papercut_px, papercut, target)
            /\ pc' = "recolor"
            /\ UNCHANGED <<result, raised, exc>>
       ELSE /\ Raise("ValueError")
            /\ UNCHANGED <<papercut, papercut_px>>
    /\ UNCHANGED <<call, scene, processed, anchor, scene_px, processed_px, final_image>>
    /\ UNCHANGED notrender

\* processed_papercut = convert_to_red(papercut, color=..., opacity=...)
Recolor ==
    /\ pc = "recolor"
    /\ processed' = papercut
    /\ processed_px' = Recolored(papercut_px, SceneRed, SceneOpacity(call.fn))
    /\ pc' = IF call.fn = "package" THEN "rotate" ELSE "anchor"
    /\ UNCHANGED <<call, result, raised, exc, papercut, scene, anchor,
                   papercut_px, scene_px, final_image>>
    /\ UNCHANGED notrender

\* processed_papercut = processed_papercut.rotate(33, expand=True, ...)
Rotate ==
    /\ pc = "rotate"
    /\ processed' = RotatedSize(processed)
    /\ processed_px' = Rotated(processed_px, processed, RotatedSize(processed))
    /\ pc' = "anchor"
    /\ UNCHANGED <<call, result, raised, exc, papercut, scene, anchor,
                   papercut_px, scene_px, final_image>>
    /\ UNCHANGED notrender

\* x, y from the centre point and the size: target_width, target_height in
\* the wall and door scenes, processed_papercut.size in the package scene
Anchor ==
    /\ pc = "anchor"
    /\ anchor' = AnchorOf(call.fn, scene, MeasuredSize(call.fn, papercut, processed))
    /\ pc' = "paste"
    /\ UNCHANGED <<call, result, raised, exc, papercut, scene, processed,
                   papercut_px, scene_px, processed_px, final_image>>
    /\ UNCHANGED notrender

\* scene_rgba.paste(processed_papercut, (x, y), processed_papercut);
\* final_image = scene_rgba.convert('RGB')
Paste ==
    /\ pc = "paste"
    /\ final_image' =
        [kind |-> "image", mode |-> "RGB",
         size |-> CanvasSize(scene, anchor, processed),
         px |-> AsRGB(Pasted(AsRGBA(scene_px), processed_px, anchor, processed))]
    /\ pc' = "save"
    /\ UNCHANGED <<call, result, raised, exc, papercut, scene, processed, anchor,
                   papercut_px, scene_px, processed_px>>
    /\ UNCHANGED notrender

\* if output_path: final_image.save(output_path); return final_image
SaveAndReturn ==
    /\ pc = "save"
    /\ IF call.output_path = "unwritable"
       THEN Raise("PermissionError")
       ELSE /\ result' = [kind |-> "image", mode |-> final_image.mode,
                           size |-> final_image.size]
            /\ pc' = "returned"
            /\ UNCHANGED <<raised, exc>>
    /\ UNCHANGED <<call, papercut, scene, processed, anchor,
                   papercut_px, scene_px, processed_px, final_image>>
    /\ UNCHANGED notrender

NextRender ==
    \/ LoadPapercut
    \/ LoadScene
    \/ Resize
    \/ Recolor
    \/ Rotate
    \/ Anchor
    \/ Paste
    \/ SaveAndReturn

SpecRender == InitRender /\ [][NextRender]_vars

----------------------------------------------------------------------------
(* Claims about the scene renders (SpecRender) *)

\* the cutout or the background cannot be read or decoded
LoadFails == call.papercut_input.state # "ok" \/ call.scene_input.state # "ok"

\* C6: each render, on an I/O or decode failure of the cutout or of the
\* background, returns None to its caller; it never raises, and whenever it
\* returns an image both inputs were loaded and the image is the whole
\* composite.
C6_FailureReturnsNone ==
    /\ pc # "raised" /\ ~raised
    /\ (pc = "returned" /\ LoadFails) => result = NoneValue
    /\ (pc = "returned" /\ result # NoneValue) =>
            /\ ~LoadFails
            /\ result = [kind |-> "image", mode |-> "RGB",
                         size |-> call.scene_input.size]
    /\ (pc # "returned") => result = Unset
    /\ LoadFails => pc \in {"load_papercut", "load_scene", "returned"}

\* a render given a readable cutout and a corrupt background file has
\* returned None
C6_Witness ==
    /\ pc = "returned"
    /\ call.papercut_input.state = "ok"
    /\ call.scene_input.state = "corrupt"
    /\ exc = "UnidentifiedImageError"
    /\ result = NoneValue

\* C10: in the wall, door and package scenes the paste position is the
\* centre point minus half the size of the cutout as pasted,
\* x = floor(W * fx) - floor(w / 2) and y = floor(H * fy) - floor(h / 2) with
\* (fx, fy) = (0.6667, 0.373), (0.6245, 0.363), (0.48, 0.4833), so the
\* cutout's centre is within one pixel of the centre point.
C10_AnchorCentresCutout ==
    (pc \in {"paste", "save"} /\ call.fn # "window") =>
        LET W == scene[1]
            H == scene[2]
            w == processed[1]
            h == processed[2]
            cx == CASE call.fn = "wall" -> (W * 6667) \div 10000
                    [] call.fn = "door" -> (W * 6245) \div 10000
                    [] call.fn = "package" -> (W * 4800) \div 10000
            cy == CASE call.fn = "wall" -> (H * 3730) \div 10000
                    [] call.fn = "door" -> (H * 3630) \div 10000
                    [] call.fn = "package" -> (H * 4833) \div 10000
        IN  /\ anchor[1] = cx - w \div 2
            /\ anchor[2] = cy - h \div 2
            \* twice the distance between the cutout's centre and the point
            /\ 2 * anchor[1] + w - 2 * cx \in {0, 1}
            /\ 2 * anchor[2] + h - 2 * cy \in {0, 1}

\* a package render about to paste a rotated cutout of odd width, wider than
\* the resized one, at a position left of the centre point
C10_Witness ==
    /\ pc = "paste"
    /\ call.fn = "package"
    /\ processed[1] > papercut[1]
    /\ processed[1] % 2 = 1
    /\ anchor[1] = (scene[1] * 48) \div 100 - processed[1] \div 2
    /\ anchor[1] < (scene[1] * 48) \div 100

\* C11: in the package scene the steps run in the order resize, recolour,
\* rotate by 33 degrees with canvas expansion, measure, anchor, paste; the
\* anchor is the centre point minus half the rotated cutout's width and
\* height, and for a square cutout it differs from the anchor the size
\* before the rotation would give.
C11_PackageAnchorsRotated ==
    /\ [][call.fn = "package" =>
            /\ pc = "resize" => pc' \in {"recolor", "returned"}
            /\ pc = "recolor" => (pc' = "rotate" /\ processed' = papercut)
            /\ pc = "rotate" =>
                    (pc' = "anchor" /\ processed' = RotatedSize(papercut))
            /\ pc = "anchor" =>
                    (pc' = "paste" /\ anchor' = AnchorOf("package", scene, processed))
            /\ pc = "paste" => (pc' = "save" /\ anchor' = anchor)
            /\ pc' = "rotate" => pc = "recolor"
            /\ pc' = "anchor" => pc = "rotate"
            /\ pc' = "paste" => pc = "anchor"]_vars
    /\ []((call.fn = "package" /\ pc \in {"paste", "save"}) =>
            /\ processed = RotatedSize(papercut)
            /\ anchor = AnchorOf("package", scene, RotatedSize(papercut))
            /\ papercut[1] = papercut[2] =>
                    /\ processed[1] >= papercut[1] + 2
                    /\ anchor # AnchorOf("package", scene, papercut))

\* a package render about to paste a square 3 x 3 cutout that the rotation
\* grew to 5 x 5, anchored one pixel up and left of the pre-rotation anchor
C11_Witness ==
    /\ pc = "paste"
    /\ call.fn = "package"
    /\ papercut = <<3, 3>>
    /\ processed = <<5, 5>>
    /\ anchor[1] = AnchorOf("package", scene, papercut)[1] - 1
    /\ anchor[2] = AnchorOf("package", scene, papercut)[2] - 1

\* the columns (rows) at which a claim reads the result: all of them on
\* the small backgrounds; on the large ones the first and the last and those
\* at and next to the two edges of the pasted box
Samples(n, at, sz) ==
    IF n \in SceneSides THEN 0..(n - 1)
    ELSE {0, n - 1, at - 1, at, at + 1, at + sz - 2, at + sz - 1, at + sz}
            \cap (0..(n - 1))

SampleXs == Samples(scene[1], anchor[1], processed[1])

SampleYs == Samples(scene[2], anchor[2], processed[2])

\* the render has returned the composite
ReturnedImage == pc = "returned" /\ result # NoneValue

\* C12: whenever a render returns an image, the image has exactly the
\* background's width and height and is RGB without alpha (every pixel three
\* channel values in 0..255), in all four scenes, for every cutout size and
\* anchor, also when the pasted cutout lies partly or wholly outside the
\* background or the anchor is negative.
C12_ResultHasBackgroundShape ==
    ReturnedImage =>
        /\ result.size = call.scene_input.size
        /\ result.mode = "RGB"
        /\ final_image.size = call.scene_input.size
        /\ final_image.mode = "RGB"
        /\ \A x \in SampleXs, y \in SampleYs :
            LET p == PixelAt(final_image.px, x, y) IN
            /\ Len(p) = 3
            /\ \A i \in 1..3 : p[i] \in 0..255

\* a wall render has returned after pasting a cutout wider than the
\* background at a negative x, so that it sticks out on both sides
C12_Witness ==
    /\ ReturnedImage
    /\ call.fn = "wall"
    /\ anchor[1] < 0
    /\ anchor[1] + processed[1] > scene[1]
    /\ result.size = scene

\* an opaque one-colour cutout rendered on a white background by the
\* window scene
WindowTest ==
    /\ ReturnedImage
    /\ call.fn = "window"
    /\ call.papercut_input.px = OpaqueCutout
    /\ call.scene_input.px = WhiteScene

\* the 100 x 100 cutout on the 1000 x 1000 background
WindowTestSizes ==
    /\ call.papercut_input.size = <<100, 100>>
    /\ call.scene_input.size = <<1000, 1000>>

\* (152, 0, 21) at alpha 191 (0.75 of 255) over white
WindowOverWhite == <<178, 64, 80>>

\* C13 as stated: the render of the 100 x 100 cutout on the 1000 x 1000
\* background has the expected region at the window scene's anchor inside
\* the output, coloured per (152, 0, 21) at opacity 0.75, and every other
\* pixel equal to the background.
C13_Original ==
    (WindowTest /\ WindowTestSizes) =>
        /\ final_image.size = <<1000, 1000>>
        /\ anchor[1] < final_image.size[1]
        /\ anchor[2] < final_image.size[2]
        /\ PixelAt(final_image.px, anchor[1], anchor[2]) = WindowOverWhite
        /\ \A x \in SampleXs, y \in SampleYs :
                ~InBox(x, y, anchor, processed) =>
                    PixelAt(final_image.px, x, y) = <<255, 255, 255>>

\* C13: the window render of an opaque one-colour cutout on a white
\* background has the background's size; the pixels of the box of 1736 x 1736
\* at (2890, 137) that fall inside the output are (152, 0, 21) at opacity
\* 0.75 over the background, every other pixel is the background's.  On the
\* 1000 x 1000 background the box starts right of the last column, so the
\* output of exactly 1000 x 1000 equals the background everywhere.
C13_WindowBoxClipped ==
    WindowTest =>
        /\ final_image.size = call.scene_input.size
        /\ anchor = <<WindowX, WindowY>>
        /\ processed = <<WindowSize, WindowSize>>
        /\ \A x \in SampleXs, y \in SampleYs :
                PixelAt(final_image.px, x, y) =
                    IF InBox(x, y, <<WindowX, WindowY>>, <<WindowSize, WindowSize>>)
                    THEN WindowOverWhite
                    ELSE <<255, 255, 255>>
        /\ WindowTestSizes =>
            /\ final_image.size = <<1000, 1000>>
            /\ anchor[1] >= final_image.size[1]
            /\ \A x \in {0, 499, 999}, y \in {0, 137, 138, 999} :
                    PixelAt(final_image.px, x, y) = <<255, 255, 255>>

\* the 100 x 100 cutout rendered on the 1000 x 1000 white background: the
\* output's last column is white although row 137 is a row of the box
C13_Witness ==
    /\ WindowTest
    /\ WindowTestSizes
    /\ result.size = <<1000, 1000>>
    /\ PixelAt(final_image.px, 999, 137) = <<255, 255, 255>>
    /\ PixelAt(processed_px, 0, 0) = <<152, 0, 21, 191>>

\* the pixel of the pasted cutout that lies over position (x, y)
CutoutOver(x, y) == PixelAt(processed_px, x - anchor[1], y - anchor[2])

\* position (x, y) of the output is under a cutout pixel with alpha > 0
UnderCutout(x, y) == InBox(x, y, anchor, processed) /\ A(CutoutOver(x, y)) > 0

\* C14: in every scene render the paste is 'over' compositing masked by the
\* cutout's own alpha: an output pixel outside the pasted box, or under a
\* cutout pixel of alpha 0, equals the background's pixel there; under a
\* cutout pixel of alpha m > 0 each channel is the rounded mix
\* (background * (255 - m) + cutout * m) / 255, which is the cutout's colour
\* at m = 255, so only those pixels can differ from the background.
C14_PasteIsOverByCutoutAlpha ==
    ReturnedImage =>
        \A x \in SampleXs, y \in SampleYs :
            LET bg == PixelAt(scene_px, x, y)
                out == PixelAt(final_image.px, x, y)
            IN  /\ ~UnderCutout(x, y) => out = bg
                /\ out # bg => UnderCutout(x, y)
                /\ UnderCutout(x, y) =>
                    LET c == CutoutOver(x, y)
                        m == A(c)
                    IN  \A i \in 1..3 :
                        LET mix == bg[i] * (255 - m) + c[i] * m IN
                        /\ 2 * (255 * out[i] - mix) <= 255
                        /\ 2 * (mix - 255 * out[i]) <= 255
                        /\ m = 255 => out[i] = c[i]

\* a render of a cutout with opaque and transparent pixels on a photograph:
\* inside the box one output pixel is the cutout's colour and its right
\* neighbour, under a transparent cutout pixel, is the photograph's
C14_Witness ==
    /\ ReturnedImage
    /\ call.scene_input.px = Gradient
    /\ \E x \in SampleXs, y \in SampleYs :
        /\ InBox(x, y, anchor, processed)
        /\ InBox(x + 1, y, anchor, processed)
        /\ x + 1 < scene[1]
        /\ A(CutoutOver(x, y)) > 0
        /\ PixelAt(final_image.px, x, y) # PixelAt(scene_px, x, y)
        /\ A(CutoutOver(x + 1, y)) = 0
        /\ PixelAt(final_image.px, x + 1, y) = PixelAt(scene_px, x + 1, y)

\* the V of HSV of an RGB pixel: its largest channel
Lightness(p) == Max(p[1], Max(p[2], p[3]))

\* the output pixel at (x, y) is the plain alpha paste of the scene colour:
\* the pasted cutout pixel is (152, 0, 21), in the package scene up to the
\* rounding of the rotation (none for an opaque cutout), and the output is
\* its mix with the background by the cutout pixel's alpha
PlainPasteAt(x, y) ==
    LET c == CutoutOver(x, y)
        m == A(c)
        bg == PixelAt(scene_px, x, y)
    IN  /\ IF call.fn = "package" /\ m # ScaleAlpha(255, SceneOpacity("package"))
           THEN \A i \in 1..3 :
                    /\ 2 * m * (c[i] - SceneRed[i]) <= 255 + 2 * m
                    /\ 2 * m * (SceneRed[i] - c[i]) <= 255 + 2 * m
           ELSE <<c[1], c[2], c[3]>> = <<152, 0, 21>>
        /\ m <= ScaleAlpha(255, SceneOpacity(call.fn))
        /\ PixelAt(final_image.px, x, y) =
                <<Div255(bg[1] * (255 - m) + c[1] * m),
                  Div255(bg[2] * (255 - m) + c[2] * m),
                  Div255(bg[3] * (255 - m) + c[3] * m)>>

\* C15 as stated: the door scene composites with the colour-transfer blend,
\* so under the cutout the background's lightness is preserved, while
\* window, wall and package use a plain alpha paste of the recoloured cutout.
C15_Original ==
    ReturnedImage =>
        \A x \in SampleXs, y \in SampleYs :
            UnderCutout(x, y) =>
                IF call.fn = "door"
                THEN Lightness(PixelAt(final_image.px, x, y))
                        = Lightness(PixelAt(scene_px, x, y))
                ELSE PlainPasteAt(x, y)

\* C15: all four scenes, the door scene included, use a plain alpha paste of
\* the cutout recoloured to (152, 0, 21): under the cutout the output is the
\* mix of that colour with the background by the cutout's alpha, and the
\* background's lightness is not kept (an opaque cutout at the door's 0.9
\* turns white into (163, 26, 45)); the door differs from the wall only in
\* size and position.
C15_EveryScenePlainPaste ==
    ReturnedImage =>
        \A x \in SampleXs, y \in SampleYs :
            UnderCutout(x, y) =>
                /\ PlainPasteAt(x, y)
                /\ (/\ call.fn \in {"door", "wall"}
                    /\ PixelAt(scene_px, x, y) = <<255, 255, 255>>
                    /\ A(PixelAt(papercut_px, x - anchor[1], y - anchor[2])) = 255) =>
                        /\ A(CutoutOver(x, y)) = 229
                        /\ PixelAt(final_image.px, x, y) = <<163, 26, 45>>
                        /\ Lightness(PixelAt(final_image.px, x, y)) < 255

\* a door render of an opaque cutout on a white background has returned: a
\* pixel under the cutout is (163, 26, 45), darker than the background
C15_Witness ==
    /\ ReturnedImage
    /\ call.fn = "door"
    /\ call.scene_input.px = WhiteScene
    /\ call.papercut_input.px = OpaqueCutout
    /\ UnderCutout(anchor[1], anchor[2])
    /\ InBox(anchor[1], anchor[2], <<0, 0>>, scene)
    /\ PixelAt(final_image.px, anchor[1], anchor[2]) = <<163, 26, 45>>

\* the (colour, opacity) pair of the recolour recorded in a cutout's content
RECURSIVE RecolourPair(_)
RecolourPair(c) ==
    IF c.kind = "recolor" THEN <<c.color, c.opacity>> ELSE RecolourPair(c.of)

\* the render has recoloured its cutout
Recoloured == processed_px.kind \in {"recolor", "rotate"}

\* the pairs read off lines 171, 214, 261 and 309
PairOf(fn) ==
    CASE fn = "window" -> <<SceneRed, 75>>
      [] fn = "wall" -> <<SceneRed, 90>>
      [] fn = "door" -> <<SceneRed, 90>>
      [] fn = "package" -> <<SceneRed, 85>>

\* C21 as stated: the pair a render recolours with is the pair of no other
\* scene.
C21_Original ==
    Recoloured =>
        \A g \in Scenes \ {call.fn} : RecolourPair(processed_px) # PairOf(g)

\* C21: every scene recolours with the colour (152, 0, 21); the opacities
\* are 0.75 for the window, 0.9 for the wall, 0.9 for the door and 0.85 for
\* the package, so the pair of a render is the pair of another scene exactly
\* when the two scenes are the wall and the door.
C21_WallAndDoorShareThePair ==
    Recoloured =>
        /\ RecolourPair(processed_px) = PairOf(call.fn)
        /\ \A g \in Scenes \ {call.fn} :
            RecolourPair(processed_px) = PairOf(g) <=>
                {call.fn, g} = {"wall", "door"}

\* a wall render has returned an image recoloured with the door's pair
C21_Witness ==
    /\ ReturnedImage
    /\ call.fn = "wall"
    /\ Recoloured
    /\ RecolourPair(processed_px) = <<(<<152, 0, 21>>), 90>>
    /\ RecolourPair(processed_px) = PairOf("door")

\* the cutout has been resized
Resized == pc \in {"recolor", "rotate", "anchor", "paste", "save"} \/ ReturnedImage

\* k is the integer part of n * a / b
TruncatedProduct(k, n, a, b) == k * b <= n * a /\ n * a < (k + 1) * b

\* the second dimension of the resized cutout is the integer part of the
\* first times the aspect ratio of the cutout passed in
SecondFromAspect ==
    LET cut == call.papercut_input.size IN
    IF call.fn = "package"
    THEN TruncatedProduct(papercut[2], papercut[1], cut[2], cut[1])
    ELSE TruncatedProduct(papercut[1], papercut[2], cut[1], cut[2])

\* both arguments were loaded and one of the computed dimensions is 0
ZeroTarget ==
    /\ LoadError(call.papercut_input) = "none"
    /\ LoadError(call.scene_input) = "none"
    /\ LET target == TargetSize(call.fn, call.scene_input.size,
                                call.papercut_input.size)
       IN  target[1] = 0 \/ target[2] = 0

\* the resized cutout has no empty side, and a computed dimension of 0 ends
\* the render with None
NoEmptyResize ==
    /\ ReturnedImage => papercut[1] >= 1 /\ papercut[2] >= 1
    /\ (pc = "returned" /\ ZeroTarget) => result = NoneValue /\ exc = "ValueError"

\* C29: in the wall, door and package renders the second dimension of the
\* resized cutout is the integer truncation of the first dimension times the
\* cutout's aspect ratio; a render that returns an image resized to at least
\* 1 in both dimensions, and a computed dimension of 0 makes the render
\* return None.
C29_ResizedDimensions ==
    call.fn \in {"wall", "door", "package"} =>
        /\ Resized => SecondFromAspect
        /\ NoEmptyResize

----------------------------------------------------------------------------
(* SpecProcess: one run of process_image_for_papercut(image_path), or of    *)
(* main() of Image_Processing.py, from opening the file to saving the PNG.  *)
(* A path is <<directory, timestamp>>; main's fixed path has timestamp 0.   *)

\* os.path.join(base_dir, "image_processed")
ModuleDir == "module/image_processed"

\* os.path.join(os.getcwd(), "image_processed")
CwdDir == "cwd/image_processed"

\* os.path.dirname('examples/output/....png')
ExamplesDir == "examples/output"

\* last second the clock reaches
MaxTime == 1

\* most files of earlier runs that are kept track of
MaxSaved == 1

EmptyImage == [mode |-> "RGB", size |-> <<0, 0>>, px |-> <<>>]

\* what the file at image_path holds when it can be decoded
ProcInputs ==
    {[mode |-> "RGB", size |-> <<2, 1>>, px |-> <<<<255, 255, 255>>, <<20, 20, 20>>>>],
     [mode |-> "RGB", size |-> <<1, 1>>, px |-> <<<<200, 40, 40>>>>],
     [mode |-> "RGB", size |-> <<2, 1>>, px |-> <<<<100, 140, 255>>, <<119, 119, 119>>>>],
     [mode |-> "RGBA", size |-> <<2, 1>>,
      px |-> <<<<250, 250, 250, 255>>, <<90, 10, 10, 128>>>>]}

\* Image.open(image_path) fails
OpenError(st) ==
    CASE st = "missing" -> "FileNotFoundError"
      [] st = "unreadable" -> "PermissionError"
      [] st = "corrupt" -> "UnidentifiedImageError"
      [] OTHER -> "none"

\* a mutant of Guarded: the try block ends after the four stages
GuardedStagesOnly(fn, step) ==
    fn = "process_image_for_papercut" /\ step \notin {"outdir", "save_png"}

\* the statement at `step` is inside a try block: all of
\* process_image_for_papercut is, nothing of main is
Guarded(fn, step) == fn = "process_image_for_papercut"

InitProcess ==
    /\ pc = "open"
    /\ \E f \in {"process_image_for_papercut", "main"},
          st \in {"ok", "missing", "unreadable", "corrupt", "truncated"} :
        /\ call = [fn |-> f, image_path |-> st]
        /\ op = f
        /\ input \in IF st = "ok" THEN ProcInputs ELSE {EmptyImage}
        /\ factor = IF f = "main" THEN 10 ELSE 3
        /\ threshold = IF f = "main" THEN 200 ELSE 230
        /\ dirs \in IF f = "main" THEN SUBSET {ExamplesDir}
                    ELSE SUBSET {ModuleDir, CwdDir}
    /\ image = EmptyImage
    /\ color = Red
    /\ opacity = 100
    /\ result = Unset
    /\ raised = FALSE
    /\ exc = "none"
    /\ files = <<>>
    /\ now = 0
    /\ output_path = NoPath
    /\ saved = <<>>
    /\ RenderIdle
    /\ ObjIdle
    /\ UiIdle
    /\ AppIdle

\* an exception e is raised by the statement at `step`
RaiseIn(step, e) ==
    /\ exc' = e
    /\ IF Guarded(call.fn, step) /\ Caught(e)
       THEN /\ result' = NoneValue
            /\ raised' = FALSE
            /\ pc' = "returned"
       ELSE /\ result' = result
            /\ raised' = TRUE
            /\ pc' = "raised"

\* image = Image.open(image_path)
Open ==
    /\ pc = "open"
    /\ IF OpenError(call.image_path) = "none"
       THEN /\ image' = input
            /\ pc' = "desaturate"
            /\ UNCHANGED <<result, raised, exc>>
       ELSE /\ RaiseIn("open", OpenError(call.image_path))
            /\ UNCHANGED image
    /\ UNCHANGED <<op, input, factor, threshold, color, opacity, call>>
    /\ UNCHANGED <<procvars, notproc>>

\* desaturate_image(image) on a truncated file: the decoder raises OSError
DecodeFails ==
    /\ pc = "desaturate"
    /\ Truncated
    /\ RaiseIn("desaturate", "OSError")
    /\ UNCHANGED <<imgvars, call, procvars, notproc>>

\* the clock advances before timestamp = int(time.time())
Tick ==
    /\ pc = "timestamp"
    /\ now < MaxTime
    /\ now' = now + 1
    /\ UNCHANGED <<pc, imgvars, callvars, dirs, files, output_path, saved, notproc>>

\* process_image_for_papercut: output_dir is the module's image_processed
\* when it exists, else the working directory's, created if need be.
\* main: the directory of output_path, created when it does not exist.
OutputDir ==
    /\ pc = "stylized"
    /\ LET output_dir ==
            IF call.fn = "main" THEN ExamplesDir
            ELSE IF ModuleDir \in dirs THEN ModuleDir ELSE CwdDir
           makes == IF call.fn = "main" THEN ExamplesDir \notin dirs
                    ELSE ModuleDir \notin dirs
       IN  \/ /\ dirs' = dirs \cup {output_dir}
              /\ output_path' = <<output_dir, 0>>
              /\ pc' = IF call.fn = "main" THEN "save_png" ELSE "timestamp"
              /\ UNCHANGED <<result, raised, exc>>
           \/ /\ makes
              /\ output_dir \notin dirs
              /\ RaiseIn("outdir", "PermissionError")
              /\ UNCHANGED <<dirs, output_path>>
    /\ UNCHANGED <<imgvars, call, files, now, saved, notproc>>

\* a mutant of Timestamp: the name also counts the files saved before
TimestampCounted ==
    /\ pc = "timestamp"
    /\ output_path' = <<output_path[1], now + (MaxTime + 1) * Len(saved)>>
    /\ pc' = "save_png"
    /\ UNCHANGED <<imgvars, callvars, dirs, files, now, saved, notproc>>

\* timestamp = int(time.time()); output_path = .../papercut_{timestamp}.png
Timestamp ==
    /\ pc = "timestamp"
    /\ output_path' = <<output_path[1], now>>
    /\ pc' = "save_png"
    /\ UNCHANGED <<imgvars, callvars, dirs, files, now, saved, notproc>>

\* image.save(output_path, 'PNG'); return output_path
SavePng ==
    /\ pc = "save_png"
    /\ \/ /\ files' = [q \in DOMAIN files \cup {output_path} |->
                        IF q = output_path THEN image ELSE files[q]]
          /\ result' = IF call.fn = "main" THEN NoneValue
                       ELSE [kind |-> "path", path |-> output_path]
          /\ pc' = "returned"
          /\ UNCHANGED <<raised, exc>>
       \/ /\ RaiseIn("save_png", "OSError")
          /\ UNCHANGED files
    /\ UNCHANGED <<imgvars, call, dirs, now, output_path, saved, notproc>>

\* the function is called again, on any file, after it has returned; the
\* directories, the files and the clock are as the earlier run left them
CallAgain ==
    /\ pc = "returned"
    /\ result # NoneValue => Len(saved) < MaxSaved
    /\ saved' = IF result # NoneValue
                THEN Append(saved, [path |-> result.path, image |-> image])
                ELSE saved
    /\ \E st \in {"ok", "missing", "unreadable", "corrupt", "truncated"} :
        /\ call' = [fn |-> call.fn, image_path |-> st]
        /\ input' \in IF st = "ok" THEN ProcInputs ELSE {EmptyImage}
    /\ image' = EmptyImage
    /\ result' = Unset
    /\ exc' = "none"
    /\ output_path' = NoPath
    /\ pc' = "open"
    /\ UNCHANGED <<op, factor, threshold, color, opacity, raised, dirs, files, now>>
    /\ UNCHANGED notproc

NextProcess ==
    \/ Open
    \/ DecodeFails
    \/ Desaturate
    \/ IncreaseContrast
    \/ RemoveWhiteBackground
    \/ ConvertToRed
    \/ OutputDir
    \/ Tick
    \/ Timestamp
    \/ SavePng
    \/ CallAgain

SpecProcess == InitProcess /\ [][NextProcess]_vars

----------------------------------------------------------------------------
(* Claims about process_image_for_papercut (SpecProcess) *)

\* C7: process_image_for_papercut never raises past its boundary: for every
\* input path, including a missing or undecodable file and a failure while
\* creating the output directory or saving, it returns either the path of a
\* written PNG (holding the stylized image) or None, and None exactly when
\* something failed.
C7_ProcessNeverRaises ==
    call.fn = "process_image_for_papercut" =>
        /\ pc # "raised" /\ ~raised
        /\ pc = "returned" =>
            \/ /\ exc # "none"
               /\ result = NoneValue
            \/ /\ exc = "none"
               /\ result.kind = "path"
               /\ result.path \in DOMAIN files
               /\ files[result.path] = image
        /\ pc # "returned" => result = Unset /\ exc = "none"
        /\ (pc = "returned" /\ call.image_path # "ok") => result = NoneValue

\* a run that stylized the image and then failed to save it has returned None
C7_Witness ==
    /\ call.fn = "process_image_for_papercut"
    /\ pc = "returned"
    /\ image # EmptyImage
    /\ image.mode = "RGBA"
    /\ exc = "OSError"
    /\ call.image_path = "ok"
    /\ result = NoneValue

----------------------------------------------------------------------------
(* SpecApp: the generation flow of main.py and of StreamlitApp/app.py.  A   *)
(* script run starts at a click on the Generate button and ends with the    *)
(* results display; st.session_state outlives it.  An image is named by     *)
(* what it is and by the attempt that made it.                              *)

\* Generate clicks in a session
MaxClicks == 2

Prompts == {"", "tiger"}

\* Image.open(raw_image_path) of attempt n
GeneratedImage(n) == [kind |-> "image", what |-> "generated", attempt |-> n]

\* the image after the four stages
ProcessedImage(n) == [kind |-> "image", what |-> "processed", attempt |-> n]

\* the composite a render returns
SceneImage(s, n) == [kind |-> "image", what |-> s, attempt |-> n]

\* st.info("... preview failed")
PreviewFailed == [kind |-> "info"]

\* render_on_<s>(img, <s>_bg, output_path): the composite, or None when
\* anything inside it failed
RenderResult(s, n, fails) == IF fails THEN NoneValue ELSE SceneImage(s, n)

\* a mutant of AfterScene: the first failed render ends the previews
AfterSceneStopOnNone(s, r) ==
    IF r = NoneValue THEN "complete"
    ELSE CASE s = "window" -> "package"
           [] s = "package" -> "door"
           [] s = "door" -> "wall"
           [] s = "wall" -> "complete"

\* the statement after the block of scene s, whatever the render returned:
\* window, package, door, wall, then progress_bar.progress(100)
AfterScene(s, r) ==
    CASE s = "window" -> "package"
      [] s = "package" -> "door"
      [] s = "door" -> "wall"
      [] s = "wall" -> "complete"

\* a mutant of HandlerKeeps: the handler resets the session value
HandlerClears(v) == NoneValue

\* except Exception as e: status_container.error(...) leaves a value of
\* st.session_state as it is
HandlerKeeps(v) == v

\* what manager.generate_image / generator.generate_image can do: return an
\* image, return failure, and in app.py (whose generator is not guarded by a
\* try of its own here) raise
GenerateOutcomes(a) ==
    IF a = "main" THEN {"image", "none"} ELSE {"image", "none", "raise"}

InitApp ==
    /\ pc = "idle"
    /\ app \in {"main", "streamlit"}
    /\ backgrounds \in SUBSET Scenes
    /\ prompt = ""
    /\ clicks = 0
    /\ render_fails = {}
    /\ generated_image = NoneValue
    /\ processed_image = NoneValue
    /\ scene_previews = EmptyPreviews
    /\ img_local = NoneValue
    /\ status = "none"
    /\ failed_at = "none"
    /\ shown = NothingShown
    /\ ImgIdle
    /\ CallIdle
    /\ RenderIdle
    /\ ObjIdle
    /\ UiIdle
    /\ ProcIdle

\* the exception of the statement at `step` reaches except Exception as e
Except(step) ==
    /\ failed_at' = step
    /\ status' = "error_exception"
    /\ generated_image' = HandlerKeeps(generated_image)
    /\ processed_image' = HandlerKeeps(processed_image)
    /\ scene_previews' = scene_previews
    /\ pc' = "display"

\* a mutant of Click: scene_previews is not reset
ClickKeepsPreviews ==
    /\ pc = "idle"
    /\ clicks < MaxClicks
    /\ clicks' = clicks + 1
    /\ img_local' = NoneValue
    /\ failed_at' = "none"
    /\ \E p \in Prompts :
        /\ prompt' = p
        /\ IF p = ""
           THEN /\ status' = "warning"
                /\ pc' = "display"
                /\ UNCHANGED <<sessionvars, render_fails, shown>>
           ELSE /\ processed_image' = NoneValue
                /\ generated_image' = NoneValue
                /\ scene_previews' = scene_previews
                /\ shown' = NothingShown
                /\ status' = "connecting"
                /\ render_fails' \in SUBSET backgrounds
                /\ pc' = "connect"
    /\ UNCHANGED <<app, backgrounds, notapp>>

\* a mutant of Click: the results placeholder is not emptied
ClickKeepsDisplay ==
    /\ pc = "idle"
    /\ clicks < MaxClicks
    /\ clicks' = clicks + 1
    /\ img_local' = NoneValue
    /\ failed_at' = "none"
    /\ \E p \in Prompts :
        /\ prompt' = p
        /\ IF p = ""
           THEN /\ status' = "warning"
                /\ pc' = "display"
                /\ UNCHANGED <<sessionvars, render_fails, shown>>
           ELSE /\ processed_image' = NoneValue
                /\ generated_image' = NoneValue
                /\ scene_previews' = EmptyPreviews
                /\ shown' = shown
                /\ status' = "connecting"
                /\ render_fails' \in SUBSET backgrounds
                /\ pc' = "connect"
    /\ UNCHANGED <<app, backgrounds, notapp>>

\* a mutant of Click: the results are cleared before the prompt is tested
ClickClearsFirst ==
    /\ pc = "idle"
    /\ clicks < MaxClicks
    /\ clicks' = clicks + 1
    /\ img_local' = NoneValue
    /\ failed_at' = "none"
    /\ \E p \in Prompts :
        /\ prompt' = p
        /\ IF p = ""
           THEN /\ status' = "warning"
                /\ pc' = "display"
                /\ processed_image' = NoneValue
                /\ generated_image' = NoneValue
                /\ scene_previews' = EmptyPreviews
                /\ shown' = NothingShown
                /\ UNCHANGED render_fails
           ELSE /\ processed_image' = NoneValue
                /\ generated_image' = NoneValue
                /\ scene_previews' = EmptyPreviews
                /\ shown' = NothingShown
                /\ status' = "connecting"
                /\ render_fails' \in SUBSET backgrounds
                /\ pc' = "connect"
    /\ UNCHANGED <<app, backgrounds, notapp>>

\* if generate_btn: an empty prompt warns; otherwise the previous results
\* are cleared and the attempt starts
Click ==
    /\ pc = "idle"
    /\ clicks < MaxClicks
    /\ clicks' = clicks + 1
    /\ img_local' = NoneValue
    /\ failed_at' = "none"
    /\ \E p \in Prompts :
        /\ prompt' = p
        /\ IF p = ""
           THEN /\ status' = "warning"
                /\ pc' = "display"
                /\ UNCHANGED <<sessionvars, render_fails, shown>>
           ELSE /\ processed_image' = NoneValue
                /\ generated_image' = NoneValue
                /\ scene_previews' = EmptyPreviews
                /\ shown' = NothingShown
                /\ status' = "connecting"
                /\ render_fails' \in SUBSET backgrounds
                /\ pc' = "connect"
    /\ UNCHANGED <<app, backgrounds, notapp>>

\* manager = ComfyUIManager(WORKFLOW_PATH) / generator.test_connection()
Connect ==
    /\ pc = "connect"
    /\ \E connection_ok \in BOOLEAN :
        IF connection_ok
        THEN /\ status' = "generating"
             /\ pc' = "generate"
        ELSE /\ status' = "error_connect"
             /\ pc' = "display"
    /\ UNCHANGED <<app, prompt, clicks, backgrounds, render_fails, sessionvars,
                   img_local, failed_at, shown, notapp>>

\* raw_image_path = manager.generate_image(prompt, OUTPUT_DIR) /
\* result = generator.generate_image(...)
Generate ==
    /\ pc = "generate"
    /\ \E outcome \in GenerateOutcomes(app) :
        CASE outcome = "image" ->
                /\ status' = "processing"
                /\ pc' = "open"
                /\ UNCHANGED <<sessionvars, failed_at>>
          [] outcome = "none" ->
                /\ status' = "error_generate"
                /\ pc' = "display"
                /\ UNCHANGED <<sessionvars, failed_at>>
          [] outcome = "raise" -> Except("generate")
    /\ UNCHANGED <<app, prompt, clicks, backgrounds, render_fails, img_local,
                   shown, notapp>>

\* img = Image.open(raw_image_path); st.session_state.generated_image = img
OpenRaw ==
    /\ pc = "open"
    /\ \/ /\ img_local' = GeneratedImage(clicks)
          /\ generated_image' = GeneratedImage(clicks)
          /\ pc' = "stylize"
          /\ UNCHANGED <<processed_image, scene_previews, status, failed_at>>
       \/ /\ Except("open")
          /\ UNCHANGED img_local
    /\ UNCHANGED <<app, prompt, clicks, backgrounds, render_fails, shown, notapp>>

\* the four stages on img; st.session_state.processed_image = img
Stylize ==
    /\ pc = "stylize"
    /\ \/ /\ img_local' = ProcessedImage(clicks)
          /\ processed_image' = ProcessedImage(clicks)
          /\ pc' = IF app = "main" THEN "save_processed" ELSE "window"
          /\ UNCHANGED <<generated_image, scene_previews, status, failed_at>>
       \/ /\ Except("stylize")
          /\ UNCHANGED img_local
    /\ UNCHANGED <<app, prompt, clicks, backgrounds, render_fails, shown, notapp>>

\* main.py: img.save(processed_path)
SaveProcessed ==
    /\ pc = "save_processed"
    /\ \/ /\ pc' = "window"
          /\ status' = "previews"
          /\ UNCHANGED <<sessionvars, failed_at>>
       \/ Except("save_processed")
    /\ UNCHANGED <<app, prompt, clicks, backgrounds, render_fails, img_local,
                   shown, notapp>>

\* if os.path.exists(<s>_bg):
\*     st.session_state.scene_previews[s] = render_on_<s>(img, <s>_bg, ...)
SceneStep(s) ==
    /\ pc = s
    /\ IF s \in backgrounds
       THEN LET r == RenderResult(s, clicks, s \in render_fails) IN
            /\ scene_previews' = [q \in DOMAIN scene_previews \cup {s} |->
                                    IF q = s THEN r ELSE scene_previews[q]]
            /\ pc' = AfterScene(s, r)
       ELSE /\ pc' = AfterScene(s, Unset)
            /\ UNCHANGED scene_previews
    /\ UNCHANGED <<app, prompt, clicks, backgrounds, render_fails,
                   generated_image, processed_image, img_local, status,
                   failed_at, shown, notapp>>

RenderWindow == SceneStep("window")

RenderPackage == SceneStep("package")

RenderDoor == SceneStep("door")

RenderWall == SceneStep("wall")

\* progress 100, success, sleep, status and progress emptied, st.rerun():
\* the script runs again without a click
Complete ==
    /\ pc = "complete"
    /\ status' = "none"
    /\ img_local' = NoneValue
    /\ pc' = "display"
    /\ UNCHANGED <<app, prompt, clicks, backgrounds, render_fails, sessionvars,
                   failed_at, shown, notapp>>

\* what the results display puts under each scene
PreviewShown(s) ==
    IF s \in DOMAIN scene_previews /\ scene_previews[s] # NoneValue
    THEN scene_previews[s]
    ELSE PreviewFailed

\* Results Display: if st.session_state.processed_image: ...
Display ==
    /\ pc = "display"
    /\ shown' =
        IF processed_image # NoneValue
        THEN [papercut |-> processed_image,
              previews |-> IF DOMAIN scene_previews # {}
                           THEN [s \in Scenes |-> PreviewShown(s)]
                           ELSE EmptyPreviews,
              warning |-> DOMAIN scene_previews = {}]
        ELSE shown
    /\ pc' = "idle"
    /\ UNCHANGED <<app, prompt, clicks, backgrounds, render_fails, sessionvars,
                   img_local, status, failed_at, notapp>>

NextApp ==
    \/ Click
    \/ Connect
    \/ Generate
    \/ OpenRaw
    \/ Stylize
    \/ SaveProcessed
    \/ RenderWindow
    \/ RenderPackage
    \/ RenderDoor
    \/ RenderWall
    \/ Complete
    \/ Display

SpecApp == InitApp /\ [][NextApp]_vars

----------------------------------------------------------------------------
(* Claims about the generation flow (SpecApp) *)

\* the scenes whose block the flow has passed
ScenesDone ==
    CASE pc = "package" -> {"window"}
      [] pc = "door" -> {"window", "package"}
      [] pc = "wall" -> {"window", "package", "door"}
      [] pc = "complete" -> Scenes
      [] OTHER -> {}

\* C8: the four scene renders are independent: whichever scenes fail or lack
\* a background, every scene whose background exists is rendered and stored
\* in scene_previews (the composite, or None for a failed render), no scene
\* failure reaches the exception handler, and the flow arrives at completion
\* with all four scenes handled.
C8_ScenesIndependent ==
    /\ \A s \in ScenesDone :
        IF s \in backgrounds
        THEN /\ s \in DOMAIN scene_previews
             /\ scene_previews[s] =
                    IF s \in render_fails THEN NoneValue ELSE SceneImage(s, clicks)
        ELSE s \notin DOMAIN scene_previews
    /\ pc \in {"window", "package", "door", "wall", "complete"} =>
            /\ failed_at = "none"
            /\ processed_image = ProcessedImage(clicks)
    /\ failed_at \notin Scenes

\* a flow at completion in which the window and door renders failed, the
\* package background is missing and the wall composite is stored
C8_Witness ==
    /\ pc = "complete"
    /\ backgrounds = {"window", "door", "wall"}
    /\ render_fails = {"window", "door"}
    /\ scene_previews["window"] = NoneValue
    /\ scene_previews["door"] = NoneValue
    /\ "package" \notin DOMAIN scene_previews
    /\ scene_previews["wall"] = SceneImage("wall", clicks)

\* the attempt ended before the cutout was stored: no connection, no image
\* returned, or an exception in generating, opening or stylizing
FailedBeforeCutout ==
    \/ status \in {"error_connect", "error_generate"}
    \/ failed_at \in {"generate", "open", "stylize"}

\* C25: after any sequence of Generate clicks, whatever succeeds or fails,
\* scene_previews is non-empty only if processed_image is set, and
\* processed_image is set only if generated_image is set.
C25_SessionStateNested ==
    /\ DOMAIN scene_previews # {} => processed_image # NoneValue
    /\ processed_image # NoneValue => generated_image # NoneValue

\* after a complete first attempt the second attempt failed in the stages:
\* its generated image is stored, the cutout and the previews are not
C25_Witness ==
    /\ pc = "idle"
    /\ clicks = 2
    /\ failed_at = "stylize"
    /\ generated_image = GeneratedImage(2)
    /\ processed_image = NoneValue
    /\ DOMAIN scene_previews = {}
    /\ backgrounds = Scenes

\* C26: a Generate click with a non-empty prompt clears generated_image,
\* processed_image and scene_previews, and the results display, before the
\* connection step; after an attempt that failed before the cutout was
\* stored nothing of an earlier attempt is in the session state or displayed.
C26_FailedAttemptLeavesNothing ==
    /\ [][(pc = "idle" /\ prompt' # "" /\ clicks' # clicks) =>
            /\ pc' = "connect"
            /\ generated_image' = NoneValue
            /\ processed_image' = NoneValue
            /\ scene_previews' = EmptyPreviews
            /\ shown' = NothingShown]_vars
    /\ [](FailedBeforeCutout =>
            /\ generated_image \in {NoneValue, GeneratedImage(clicks)}
            /\ processed_image = NoneValue
            /\ scene_previews = EmptyPreviews
            /\ shown = NothingShown)

\* main.py, all backgrounds present: the second attempt found no connection
\* and the display has run
C26_Witness ==
    /\ pc = "idle"
    /\ clicks = 2
    /\ prompt # ""
    /\ status = "error_connect"
    /\ backgrounds = Scenes
    /\ generated_image = NoneValue
    /\ processed_image = NoneValue
    /\ shown = NothingShown

\* C27: a Generate click with an empty prompt only shows a warning:
\* generated_image, processed_image and scene_previews are left as they
\* are, the flow goes to the results display without a connection or
\* generation step, and the results produced before stay displayed.
C27_EmptyPromptOnlyWarns ==
    /\ [][(pc = "idle" /\ prompt' = "" /\ clicks' # clicks) =>
            /\ status' = "warning"
            /\ pc' = "display"
            /\ UNCHANGED sessionvars]_vars
    /\ []((pc = "idle" /\ status = "warning" /\ processed_image # NoneValue) =>
            /\ shown.papercut = processed_image
            /\ DOMAIN scene_previews # {} =>
                \A s \in Scenes : shown.previews[s] = PreviewShown(s))

\* after a complete first attempt a click with an empty prompt: the cutout
\* and a preview of the first attempt are stored and displayed
C27_Witness ==
    /\ pc = "idle"
    /\ clicks = 2
    /\ prompt = ""
    /\ status = "warning"
    /\ processed_image = ProcessedImage(1)
    /\ backgrounds = Scenes
    /\ "wall" \in DOMAIN scene_previews
    /\ scene_previews["wall"] = SceneImage("wall", 1)
    /\ shown.papercut = ProcessedImage(1)
    /\ "wall" \in DOMAIN shown.previews
    /\ shown.previews["wall"] = SceneImage("wall", 1)

\* a click with a non-empty prompt clears the session state
ClearingClick == pc = "idle" /\ pc' = "connect"

\* C9: once the cutout has been stylized in an attempt it stays in
\* st.session_state.processed_image through every later step of the attempt,
\* failing or not (a render returning None, an error saving the processed
\* file), until the next attempt clears it, and the results display shows it.
C9_CutoutStays ==
    /\ [][(processed_image # NoneValue /\ ~ClearingClick)
            => processed_image' = processed_image]_vars
    /\ []((pc = "idle" /\ processed_image # NoneValue)
            => shown.papercut = processed_image)
    /\ []((pc \in {"save_processed", "window", "package", "door", "wall", "complete"}
           \/ failed_at = "save_processed")
            => processed_image = ProcessedImage(clicks))

\* main.py after an attempt whose save of the processed file failed: the
\* cutout is in the session state and displayed, with the preview warning
C9_Witness ==
    /\ pc = "idle"
    /\ app = "main"
    /\ failed_at = "save_processed"
    /\ processed_image = ProcessedImage(clicks)
    /\ shown.papercut = ProcessedImage(clicks)
    /\ shown.warning

\* the four stages applied in order to img
Stylized(img, f, t) ==
    convert_to_red(remove_white_background(
        increase_contrast(desaturate_image(img), f), t), Red, 100)

----------------------------------------------------------------------------
(* SpecObjects: the operations and the renders statement by statement, with *)
(* the identity of every image and array object.  heap is the sequence of   *)
(* the objects that exist, an object's identity is its index; the objects   *)
(* passed in come first.  A statement either binds a local to an object     *)
(* that exists, makes a new object, or writes into an object in place.      *)
(* Image.convert, resize, rotate and Image.fromarray return new images      *)
(* (convert and resize return self.copy() when nothing changes); np.array   *)
(* copies the pixels of the image; the indexed assignments write into the   *)
(* array and paste writes into scene_rgba.                                  *)

\* images passed to the operations: of one pixel or of two in a row
ObjImages == {i \in OpInputs : i.size[2] = 1}

\* cutouts and backgrounds passed to the renders as images
ObjCutouts == {c \in CutoutInputs : c.kind = "image"}

ObjScenes == {c \in SceneInputs : c.kind = "image"}

ObjCalls ==
    {[fn |-> "remove_white_background", image |-> i, threshold |-> t] :
        i \in ObjImages, t \in Thresholds}
    \cup {[fn |-> "convert_to_red", image |-> i, color |-> c, opacity |-> o] :
            i \in ObjImages, c \in {Red, SceneRed}, o \in {75, 100}}
    \cup {[fn |-> "apply_color_effect", image |-> i, color |-> c] :
            i \in ObjImages, c \in EffectColors}
    \cup {c \in [fn : Scenes, papercut_input : ObjCutouts, scene_input : ObjScenes,
                 output_path : {"none"}] : Computable(c)}

\* the image objects passed to a call
Passed(c) ==
    IF c.fn \in Scenes THEN <<c.papercut_input, c.scene_input>> ELSE <<c.image>>

\* a new object holding v: the heap with it and its identity
New(h, v) == [heap |-> Append(h, v), id |-> Len(h) + 1]

\* a mutant of np_array: the array is a view of the image's pixels
np_array_view(h, id) == [heap |-> h, id |-> id]

\* np.array(image): an array holding a copy of the image's pixels
np_array(h, id) == New(h, h[id])

\* an image of a render
SceneObject(size, px) == [kind |-> "image", state |-> "ok", size |-> size, px |-> px]

InitObjects ==
    /\ pc = "enter"
    /\ call \in ObjCalls
    /\ heap = Passed(call)
    /\ locals = IF call.fn \in Scenes THEN NoLocals
                ELSE [NoLocals EXCEPT !.image = 1]
    /\ result = Unset
    /\ raised = FALSE
    /\ exc = "none"
    /\ ImgIdle
    /\ RenderIdle
    /\ UiIdle
    /\ ProcIdle
    /\ AppIdle

\* if image.mode != 'RGBA': image = image.convert('RGBA')
\* (apply_color_effect: if base_img.mode != 'RGB': base_img = base_img.convert('RGB'))
Coerce ==
    /\ pc = "enter"
    /\ call.fn \notin Scenes
    /\ LET mode == IF call.fn = "apply_color_effect" THEN "RGB" ELSE "RGBA"
           img == heap[locals.image]
           n == New(heap, IF mode = "RGB" THEN ConvertRGB(img) ELSE ConvertRGBA(img))
       IN  IF img.mode # mode
           THEN /\ heap' = n.heap
                /\ locals' = [locals EXCEPT !.image = n.id]
           ELSE UNCHANGED <<heap, locals>>
    /\ pc' = IF call.fn = "apply_color_effect" THEN "new_hsv_img" ELSE "array"
    /\ UNCHANGED <<call, result, raised, exc>>
    /\ UNCHANGED <<imgvars, rendervars, procvars, appvars, uivars>>

\* img_array = np.array(image)
ToArray ==
    /\ pc = "array"
    /\ LET n == np_array(heap, locals.image) IN
        /\ heap' = n.heap
        /\ locals' = [locals EXCEPT !.img_array = n.id]
    /\ pc' = "write"
    /\ UNCHANGED <<call, result, raised, exc>>
    /\ UNCHANGED <<imgvars, rendervars, procvars, appvars, uivars>>

\* img_array[white_mask, 3] = 0, or img_array[:, :, k] = np.where(...) for
\* the four channels: the array is written in place
WriteArray ==
    /\ pc = "write"
    /\ heap' = [heap EXCEPT ![locals.img_array] =
                    IF call.fn = "remove_white_background"
                    THEN remove_white_background(@, call.threshold)
                    ELSE convert_to_red(@, call.color, call.opacity)]
    /\ pc' = "fromarray"
    /\ UNCHANGED <<call, result, raised, exc, locals>>
    /\ UNCHANGED <<imgvars, rendervars, procvars, appvars, uivars>>

\* return Image.fromarray(img_array, 'RGBA')
FromArray ==
    /\ pc = "fromarray"
    /\ LET n == New(heap, heap[locals.img_array]) IN
        /\ heap' = n.heap
        /\ result' = [kind |-> "image", id |-> n.id]
    /\ pc' = "returned"
    /\ UNCHANGED <<call, raised, exc, locals>>
    /\ UNCHANGED <<imgvars, rendervars, procvars, appvars, uivars>>

\* base_hsv, color_layer, color_hsv and the arrays are new objects, none is
\* written; return Image.fromarray(new_hsv_np, 'HSV').convert('RGB')
ColorEffect ==
    /\ pc = "new_hsv_img"
    /\ LET hsv == New(heap, new_hsv_img(heap[locals.image], call.color))
           n == New(hsv.heap, ConvertHSVToRGB(hsv.heap[hsv.id]))
       IN  /\ heap' = n.heap
           /\ result' = [kind |-> "image", id |-> n.id]
    /\ pc' = "returned"
    /\ UNCHANGED <<call, raised, exc, locals>>
    /\ UNCHANGED <<imgvars, rendervars, procvars, appvars, uivars>>

\* papercut = papercut_input.convert('RGBA'); scene = scene_input.convert('RGB'):
\* the cutout is RGBA and the background RGB, so each is self.copy()
LoadObjects ==
    /\ pc = "enter"
    /\ call.fn \in Scenes
    /\ IF LoadError(heap[1]) # "none"
       THEN /\ Raise(LoadError(heap[1]))
            /\ UNCHANGED <<heap, locals>>
       ELSE IF LoadError(heap[2]) # "none"
       THEN /\ Raise(LoadError(heap[2]))
            /\ heap' = Append(heap, heap[1])
            /\ locals' = [locals EXCEPT !.papercut = 3]
       ELSE /\ heap' = heap \o <<heap[1], heap[2]>>
            /\ locals' = [locals EXCEPT !.papercut = 3, !.scene = 4]
            /\ pc' = "resize"
            /\ UNCHANGED <<result, raised, exc>>
    /\ UNCHANGED call
    /\ UNCHANGED <<imgvars, rendervars, procvars, appvars, uivars>>

\* papercut = papercut.resize(...); processed_papercut = convert_to_red(papercut,
\* ...): papercut is RGBA, so convert_to_red takes np.array(papercut) of the
\* resized image itself, writes the array and returns Image.fromarray of it;
\* the package scene then binds processed_papercut to the rotated image
ResizeRecolor ==
    /\ pc = "resize"
    /\ LET cut == heap[locals.papercut]
           target == TargetSize(call.fn, heap[locals.scene].size, cut.size)
       IN
       IF target[1] >= 1 /\ target[2] >= 1
       THEN \E c \in ResizedContents(cut.px, cut.size, target) :
            LET resized == New(heap, SceneObject(target, c))
                arr == np_array(resized.heap, resized.id)
                written == [arr.heap EXCEPT ![arr.id].px =
                                Recolored(@, SceneRed, SceneOpacity(call.fn))]
                red == New(written, written[arr.id])
                turned == New(red.heap,
                              SceneObject(RotatedSize(target),
                                          Rotated(red.heap[red.id].px, target,
                                                  RotatedSize(target))))
                last == IF call.fn = "package" THEN turned ELSE red
            IN  /\ heap' = last.heap
                /\ locals' = [locals EXCEPT !.papercut = resized.id,
                                            !.img_array = arr.id,
                                            !.processed_papercut = last.id]
                /\ pc' = "paste"
                /\ UNCHANGED <<result, raised, exc>>
       ELSE /\ Raise("ValueError")
            /\ UNCHANGED <<heap, locals>>
    /\ UNCHANGED call
    /\ UNCHANGED <<imgvars, rendervars, procvars, appvars, uivars>>

\* scene_rgba = scene.convert('RGBA'); scene_rgba.paste(processed_papercut,
\* (x, y), processed_papercut) writes scene_rgba in place;
\* final_image = scene_rgba.convert('RGB'); return final_image
PasteObjects ==
    /\ pc = "paste"
    /\ LET sc == heap[locals.scene]
           over == heap[locals.processed_papercut]
           measured == MeasuredSize(call.fn, heap[locals.papercut].size, over.size)
           at == AnchorOf(call.fn, sc.size, measured)
           rgba == New(heap, SceneObject(sc.size, AsRGBA(sc.px)))
           pasted == [rgba.heap EXCEPT ![rgba.id].px = Pasted(@, over.px, at, over.size)]
           final == New(pasted, SceneObject(sc.size, AsRGB(pasted[rgba.id].px)))
       IN  /\ heap' = final.heap
           /\ locals' = [locals EXCEPT !.scene_rgba = rgba.id]
           /\ result' = [kind |-> "image", id |-> final.id]
    /\ pc' = "returned"
    /\ UNCHANGED <<call, raised, exc>>
    /\ UNCHANGED <<imgvars, rendervars, procvars, appvars, uivars>>

NextObjects ==
    \/ Coerce
    \/ ToArray
    \/ WriteArray
    \/ FromArray
    \/ ColorEffect
    \/ LoadObjects
    \/ ResizeRecolor
    \/ PasteObjects

SpecObjects == InitObjects /\ [][NextObjects]_vars

\* C22: no operation mutates its input: when remove_white_background,
\* convert_to_red, apply_color_effect or a render has returned, with an image
\* or with None, every image object passed in holds what it held at the call
\* (pixels, size and mode), also when it already had the mode the operation
\* coerces to; and the image returned is none of the objects passed in.
C22_InputsNotMutated ==
    pc = "returned" =>
        /\ \A i \in DOMAIN Passed(call) : heap[i] = Passed(call)[i]
        /\ result # NoneValue => result.id \notin DOMAIN Passed(call)

\* remove_white_background has returned for an RGBA image with a white
\* pixel: the local image was the object passed in, the array was written,
\* the image returned differs from the image passed in, which is as it was
C22_Witness ==
    /\ pc = "returned"
    /\ call.fn = "remove_white_background"
    /\ call.image.mode = "RGBA"
    /\ locals.image = 1
    /\ heap[result.id] # call.image
    /\ heap[1] = call.image

----------------------------------------------------------------------------
(* SpecHistory: calls of GradioInterface.generate_gif_handler and            *)
(* get_history_gallery on one interface object.  A handler call returns the  *)
(* pair (gif_path, status); a GIF path is numbered by the GIFs made before.  *)

\* most entries the history gets
MaxHistory == 21

\* self.generation_history[:20]
GalleryLimit == 20

\* sentences typed in: none, blanks only, a prompt
Sentences == {"", "  ", "tiger"}

\* not sentence or sentence.strip() == ""
Blank(sentence) == sentence \in {"", "  "}

GifPath(n) == [kind |-> "path", n |-> n]

\* the pair a handler call returns
Returns(gif_path, status_text) ==
    [kind |-> "pair", path |-> gif_path, status |-> status_text]

\* a mutant of Inserted: the entry is added at the end
Appended(history, entry) == Append(history, entry)

\* self.generation_history.insert(0, entry)
Inserted(history, entry) == <<entry>> \o history

\* the entry of a GIF made now
Entry(gif_path) ==
    [sentence |-> call.sentence, path |-> gif_path, timestamp |-> now]

InitHistory ==
    /\ pc = "idle"
    /\ call = [fn |-> "none"]
    /\ result = Unset
    /\ raised = FALSE
    /\ exc = "none"
    /\ generation_history = <<>>
    /\ now = 0
    /\ dirs = {}
    /\ files = <<>>
    /\ output_path = NoPath
    /\ saved = <<>>
    /\ ImgIdle
    /\ RenderIdle
    /\ ObjIdle
    /\ AppIdle

\* except Exception as e: return None, "... {str(e)}"
HandlerCatches ==
    /\ exc' = "Exception"
    /\ result' = Returns(NoneValue, "error_exception")
    /\ pc' = "idle"
    /\ UNCHANGED generation_history

\* the GIF was made: the entry is inserted and (gif_path, status) returned
Succeeds ==
    LET gif_path == GifPath(Len(generation_history) + 1) IN
    /\ generation_history' = Inserted(generation_history, Entry(gif_path))
    /\ result' = Returns(gif_path, "success")
    /\ pc' = "idle"
    /\ UNCHANGED exc

\* generate_gif_handler(sentence, ..., use_comfyui) is called: a blank
\* sentence returns at once
CallGenerateGif ==
    /\ pc = "idle"
    /\ Len(generation_history) < MaxHistory
    /\ \E sentence \in Sentences, use_comfyui \in BOOLEAN :
        /\ call' = [fn |-> "generate_gif_handler", sentence |-> sentence,
                    use_comfyui |-> use_comfyui]
        /\ IF Blank(sentence)
           THEN /\ result' = Returns(NoneValue, "error_sentence")
                /\ pc' = "idle"
           ELSE /\ result' = Unset
                /\ pc' = IF use_comfyui THEN "test_connection" ELSE "create_demo_gif"
    /\ exc' = "none"
    /\ UNCHANGED <<raised, generation_history, procvars>>
    /\ UNCHANGED <<imgvars, rendervars, objvars, appvars>>

\* if not self.comfyui_client.test_connection(): return None, "..."
TestConnection ==
    /\ pc = "test_connection"
    /\ \/ /\ pc' = "generate_gif"
          /\ UNCHANGED <<result, exc, generation_history>>
       \/ /\ result' = Returns(NoneValue, "error_connection")
          /\ pc' = "idle"
          /\ UNCHANGED <<exc, generation_history>>
       \/ HandlerCatches
    /\ UNCHANGED <<call, raised, procvars>>
    /\ UNCHANGED <<imgvars, rendervars, objvars, appvars>>

\* gif_path = self.comfyui_client.generate_gif(...); if gif_path: ... else: ...
GenerateGif ==
    /\ pc = "generate_gif"
    /\ \/ Succeeds
       \/ /\ result' = Returns(NoneValue, "error_generation")
          /\ pc' = "idle"
          /\ UNCHANGED <<exc, generation_history>>
       \/ HandlerCatches
    /\ UNCHANGED <<call, raised, procvars>>
    /\ UNCHANGED <<imgvars, rendervars, objvars, appvars>>

\* gif_path = self.create_demo_gif(...), which returns a path or raises
CreateDemoGif ==
    /\ pc = "create_demo_gif"
    /\ \/ Succeeds
       \/ HandlerCatches
    /\ UNCHANGED <<call, raised, procvars>>
    /\ UNCHANGED <<imgvars, rendervars, objvars, appvars>>

\* get_history_gallery(): (path, sentence) of self.generation_history[:20]
GetHistoryGallery ==
    /\ pc = "idle"
    /\ call' = [fn |-> "get_history_gallery"]
    /\ result' = [kind |-> "gallery",
                  items |-> [i \in 1..Min(GalleryLimit, Len(generation_history)) |->
                                <<generation_history[i].path,
                                  generation_history[i].sentence>>]]
    /\ exc' = "none"
    /\ UNCHANGED <<pc, raised, generation_history, procvars>>
    /\ UNCHANGED <<imgvars, rendervars, objvars, appvars>>

\* time passes between calls
Elapse ==
    /\ pc = "idle"
    /\ now < MaxTime
    /\ now' = now + 1
    /\ UNCHANGED <<pc, callvars, generation_history, dirs, files, output_path, saved>>
    /\ UNCHANGED <<imgvars, rendervars, objvars, appvars>>

NextHistory ==
    \/ CallGenerateGif
    \/ TestConnection
    \/ GenerateGif
    \/ CreateDemoGif
    \/ GetHistoryGallery
    \/ Elapse

SpecHistory == InitHistory /\ [][NextHistory]_vars

\* a handler call ends in this step
HandlerReturns ==
    /\ call'.fn = "generate_gif_handler"
    /\ result' # result
    /\ result'.kind = "pair"

\* C30: generation_history is ordered newest first and changes only on
\* success: a handler call that returns a GIF path (from ComfyUI or in demo
\* mode) has inserted exactly one entry, for that path and sentence, in front
\* of the entries there were; a call that returns None (blank sentence, no
\* connection, no GIF path, exception) and every other step leave the
\* history as it was; get_history_gallery returns (path, sentence) of the
\* first min(20, length) entries in the history's order.
C30_HistoryNewestFirst ==
    /\ [][/\ (HandlerReturns /\ result'.path # NoneValue) =>
                /\ Len(generation_history') = Len(generation_history) + 1
                /\ SubSeq(generation_history', 2, Len(generation_history'))
                        = generation_history
                /\ generation_history'[1].path = result'.path
                /\ generation_history'[1].sentence = call.sentence
          /\ ~(HandlerReturns /\ result'.path # NoneValue) =>
                generation_history' = generation_history]_vars
    /\ [](\A i, j \in DOMAIN generation_history :
            i < j => /\ generation_history[i].path.n > generation_history[j].path.n
                     /\ generation_history[i].timestamp >= generation_history[j].timestamp)
    /\ [](result.kind = "gallery" =>
            /\ Len(result.items) = Min(GalleryLimit, Len(generation_history))
            /\ \A i \in DOMAIN result.items :
                result.items[i] = <<generation_history[i].path,
                                    generation_history[i].sentence>>)

\* the gallery of a history of 21 entries has been returned: 20 items, the
\* newest GIF first, the oldest entry left out; the history holds entries
\* made in different seconds
C30_Witness ==
    /\ result.kind = "gallery"
    /\ Len(generation_history) = 21
    /\ Len(result.items) = 20
    /\ result.items[1][1] = GifPath(21)
    /\ result.items[20][1] = GifPath(2)
    /\ generation_history[1].timestamp > generation_history[21].timestamp

====
